---- MODULE Spec2Model ----
(***************************************************************************)
(* School-management chatbot: the RBAC-gated, tenant-scoped data-access    *)
(* layer (auth.py, db_tools.py, database.py) behind the HTTP boundary of   *)
(* main.py.                                                                *)
(*                                                                         *)
(* Spec       requests on two slots sharing the connection pool: bearer    *)
(*            header -> get_current_user -> get_agent -> tool operations   *)
(*            (gate, session, queries, commit) -> response.                *)
(* SpecToken  decode_token applied to tokens, clocks and time zones.       *)
(* SpecPolicy filter_query_by_role applied to identities and filters.      *)
(* SpecSql, SpecWorkflow, SpecSession, SpecRoundTrip: the SQL tool of      *)
(*            Chat-bot-project, the agent's workflow, one get_session      *)
(*            block, and a token made and decoded again.                   *)
(***************************************************************************)
EXTENDS Integers, Sequences, FiniteSets, TLC

VARIABLES
    enable_schema_isolation, \* Settings.enable_schema_isolation, fixed per process
    now,                     \* datetime.utcnow(), in ticks
    tz,                      \* local time zone offset of the process, in seconds
    conn,                    \* pooled connection -> its current search_path
    owner,                   \* pooled connection -> request slot holding it, or Free
    pc,                      \* request slot -> position in the request handling
    hdr,                     \* request slot -> Authorization header
    auth,                    \* request slot -> AuthPayload handed on by get_current_user
    status,                  \* request slot -> HTTP status decided so far (0: none yet)
    agent,                   \* request slot -> the agent's (schema_name, auth_payload)
    call,                    \* request slot -> the tool call in progress
    target,                  \* request slot -> the resolved student_id of the call
    sess,                    \* request slot -> connection of the open session, or NoConn
    found,                   \* request slot -> rows of the first (lookup) query
    gate,                    \* request slot -> outcome of the call's entry checks
    qlog,                    \* request slot -> queries executed by the call in progress
    result,                  \* request slot -> value returned by the last tool call
    dec,                     \* SpecToken: token under test and decode_token's answer
    flt,                     \* SpecPolicy: identity, filters in, filters out, out of out
    store,                   \* the rows stored in the database, per table
    pol,                     \* SpecPolicy: targets and answers of the access checks
    sql,                     \* SpecSql: the chatbot database and execute_sql's calls
    wf,                      \* SpecWorkflow: the AgentState of one chat() run
    lc,                      \* SpecSession: one get_session block and its session
    rt                       \* SpecRoundTrip: a token made and decoded again

auxVars == <<sql, wf, lc, rt>>
gwVars == <<enable_schema_isolation, conn, owner, pc, hdr, auth, status, agent,
            call, target, sess, found, gate, qlog, result>>
vars == <<enable_schema_isolation, now, tz, conn, owner, pc, hdr, auth, status,
          agent, call, target, sess, found, gate, qlog, result, dec, flt, store, pol,
          sql, wf, lc, rt>>

(***************************************************************************)
(* Values                                                                  *)
(***************************************************************************)
None == "None"

UserRoleValues == {"admin", "teacher", "student", "parent"}

\* Role strings a signed token may carry: AuthPayload.role is a plain str.
RoleStrings == UserRoleValues \cup {"guest"}

\* UserRole(value) raises ValueError for a string that is no member.
UserRoleRaises(role) == role \notin UserRoleValues

Tenants == {"t1", "t2"}
DefaultSearchPath == "public"
Partitions == Tenants \cup {DefaultSearchPath}

Reqs == {"r1", "r2"}
Conns == {"c1", "c2"}
Free == "free"
NoConn == "none"

\* AuthPayload; NoAuth stands for Python's None where an AuthPayload is expected.
NoAuth == [role |-> None, schema_name |-> None, student_id |-> None, exp |-> -1]

\* Text is a sequence of one-character strings.
Str_ma == <<"m", "a">>
Str_Math == <<"M", "a", "t", "h">>
Str_Art == <<"A", "r", "t">>

(***************************************************************************)
(* auth.py: AuthService.decode_token                                       *)
(***************************************************************************)
\* Clock resolution: datetime.utcnow() is finer than the whole seconds of exp.
TicksPerSec == 2

\* A token as decode_token sees it: sig says whether the signature verifies
\* against the configured secret and algorithm, complete whether the payload
\* holds every required AuthPayload field; exp is in whole seconds.
Token(sig, complete, role, schema_name, student_id, exp) ==
    [sig |-> sig, complete |-> complete, role |-> role,
     schema_name |-> schema_name, student_id |-> student_id, exp |-> exp]

NoToken == Token(FALSE, FALSE, None, None, None, -1)

\* jose.jwt.decode: the signature must verify, and the exp claim is rejected
\* when exp < timegm(utcnow().utctimetuple()), a whole-second clock.
jwt_decode_ok(token, nowTicks) ==
    /\ token.sig
    /\ ~(token.exp < nowTicks \div TicksPerSec)

\* AuthPayload(**payload): pydantic validation; role is typed str, so any
\* role string is accepted.
AuthPayload_ok(token) == token.complete

AuthPayload(token) ==
    [role |-> token.role, schema_name |-> token.schema_name,
     student_id |-> token.student_id, exp |-> token.exp]

\* datetime.fromtimestamp(exp) < datetime.utcnow(): fromtimestamp gives
\* the local wall-clock time, utcnow the UTC one.
expired_check(exp, nowTicks, tzOffset) ==
    (exp + tzOffset) * TicksPerSec < nowTicks

decode_token(token, nowTicks, tzOffset) ==
    IF ~jwt_decode_ok(token, nowTicks) THEN NoAuth
    ELSE IF ~AuthPayload_ok(token) THEN NoAuth
    ELSE IF expired_check(AuthPayload(token).exp, nowTicks, tzOffset) THEN NoAuth
    ELSE AuthPayload(token)

(***************************************************************************)
(* auth.py: RBACService                                                    *)
(***************************************************************************)
\* Variant: the student branch grants every target.
can_access_student_data_any(auth_payload, target_student_id) ==
    IF UserRoleRaises(auth_payload.role) THEN "ValueError"
    ELSE IF auth_payload.role \in {"admin", "student", "teacher"} THEN "true"
    ELSE "false"

\* Variant: a parent whose token carries a student_id is treated as that
\* student.
can_access_student_data_parent(auth_payload, target_student_id) ==
    IF UserRoleRaises(auth_payload.role) THEN "ValueError"
    ELSE IF auth_payload.role \in {"admin", "teacher"} THEN "true"
    ELSE IF auth_payload.student_id = target_student_id THEN "true"
    ELSE "false"

\* Variant: the student test comes first and looks at student_id alone.
can_access_student_data_own_first(auth_payload, target_student_id) ==
    IF UserRoleRaises(auth_payload.role) THEN "ValueError"
    ELSE IF auth_payload.student_id # None
         THEN (IF auth_payload.student_id = target_student_id THEN "true" ELSE "false")
    ELSE IF auth_payload.role \in {"admin", "teacher"} THEN "true"
    ELSE "false"

\* The three outcomes of a policy function: a boolean, or the ValueError
\* raised by UserRole(auth_payload.role).
can_access_student_data(auth_payload, target_student_id) ==
    IF UserRoleRaises(auth_payload.role) THEN "ValueError"
    ELSE IF auth_payload.role = "admin" THEN "true"
    ELSE IF auth_payload.role = "student"
         THEN (IF auth_payload.student_id = target_student_id THEN "true" ELSE "false")
    ELSE IF auth_payload.role = "teacher" THEN "true"
    ELSE "false"

can_access_class_data(auth_payload, class_id) ==
    IF UserRoleRaises(auth_payload.role) THEN "ValueError"
    ELSE IF auth_payload.role = "admin" THEN "true"
    ELSE IF auth_payload.role = "teacher" THEN "true"
    ELSE "false"

\* A dict of filters is a function from its keys to their values.
Raised(exc) == [raised |-> exc]

\* Variant: a student_id already among the filters is kept (setdefault).
filter_query_by_role_keep(auth_payload, base_filters) ==
    IF UserRoleRaises(auth_payload.role) THEN Raised("ValueError")
    ELSE IF auth_payload.role = "student"
         THEN [k \in DOMAIN base_filters \cup {"student_id"} |->
                  IF k \in DOMAIN base_filters THEN base_filters[k]
                  ELSE auth_payload.student_id]
    ELSE base_filters

filter_query_by_role(auth_payload, base_filters) ==
    IF UserRoleRaises(auth_payload.role) THEN Raised("ValueError")
    ELSE IF auth_payload.role = "student"
         THEN [k \in DOMAIN base_filters \cup {"student_id"} |->
                  IF k = "student_id" THEN auth_payload.student_id
                  ELSE base_filters[k]]
    ELSE base_filters


(***************************************************************************)
(* models.py: the stored rows.  Every row lives in one partition (schema); *)
(* primary keys are per partition, so the same key names different rows in *)
(* different partitions.                                                   *)
(***************************************************************************)
StudentRow(part, pk, student_id, name, class_pk) ==
    [part |-> part, pk |-> pk, student_id |-> student_id, name |-> name,
     class_pk |-> class_pk]

ClassRow(part, pk, class_id, name) ==
    [part |-> part, pk |-> pk, class_id |-> class_id, name |-> name]

SubjectRow(part, pk, name) == [part |-> part, pk |-> pk, name |-> name]

ExamRow(part, pk, student_pk, subject_pk, exam_type, marks_obtained, max_marks) ==
    [part |-> part, pk |-> pk, student_pk |-> student_pk, subject_pk |-> subject_pk,
     exam_type |-> exam_type, marks_obtained |-> marks_obtained,
     max_marks |-> max_marks]

AttendanceRow(part, pk, student_pk, date, st) ==
    [part |-> part, pk |-> pk, student_pk |-> student_pk, date |-> date,
     status |-> st]

Store(students, classes, subjects, exam_results, attendance) ==
    [students |-> students, classes |-> classes, subjects |-> subjects,
     exam_results |-> exam_results, attendance |-> attendance]

\* The tables as first loaded.
InitialStore ==
    Store(
      { StudentRow("t1", 1, "S1", "Ann", 1), StudentRow("t1", 2, "S2", "Bob", 1),
        StudentRow("t2", 1, "S1", "Cid", 1),
        StudentRow("public", 1, "S1", "Pat", 1) },
      { ClassRow("t1", 1, "C1", "Grade 10 A"), ClassRow("t2", 1, "C1", "Grade 7 B"),
        ClassRow("public", 1, "C1", "Grade 1 P") },
      { SubjectRow(p, 1, Str_Math) : p \in Partitions } \cup
        { SubjectRow(p, 2, Str_Art) : p \in Partitions },
      { ExamRow("t1", 1, 1, 1, "midterm", 45, 50), ExamRow("t1", 2, 1, 2, "final", 30, 50),
        ExamRow("t1", 3, 2, 1, "final", 20, 50),
        ExamRow("t2", 1, 1, 1, "final", 50, 50), ExamRow("t2", 2, 1, 2, "quiz", 10, 50),
        ExamRow("public", 1, 1, 1, "final", 5, 50) },
      { AttendanceRow("t1", 1, 1, 1, "present"), AttendanceRow("t1", 2, 1, 2, "absent"),
        AttendanceRow("t1", 3, 1, 3, "late"), AttendanceRow("t1", 4, 2, 2, "present"),
        AttendanceRow("t2", 1, 1, 2, "absent"),
        AttendanceRow("public", 1, 1, 1, "excused") })

\* The tables as they are now.
Students == store.students

Classes == store.classes

Subjects == store.subjects

ExamResults == store.exam_results

Attendances == store.attendance

(***************************************************************************)
(* The SELECT statements of db_tools.py, evaluated on the connection's     *)
(* search_path: an unqualified table name resolves in that schema.         *)
(***************************************************************************)
Lower(c) ==
    CASE c = "M" -> "m" [] c = "A" -> "a" [] OTHER -> c

LowerText(t) == [i \in 1..Len(t) |-> Lower(t[i])]

\* name ILIKE '%pattern%': a case-insensitive substring match.
ilike(name, pattern) ==
    \E i \in 0..(Len(name) - Len(pattern)) :
        \A j \in 1..Len(pattern) : Lower(name[i + j]) = Lower(pattern[j])

\* select(Student, User[, Class]).where(Student.student_id == student_id)
SelectStudent(path, student_id) ==
    { s \in Students : s.part = path /\ s.student_id = student_id }

SubjectOf(e) == CHOOSE sj \in Subjects : sj.part = e.part /\ sj.pk = e.subject_pk

\* None and the empty string are both falsy: "if subject_name:" skips them.
NoText == << >>

\* select(ExamResult, Subject).where(ExamResult.student_id == student.id)
\* with the optional subject and exam-type filters
SelectExamResults(path, student_pk, subject_name, exam_type) ==
    { e \in ExamResults :
        /\ e.part = path
        /\ e.student_pk = student_pk
        /\ (subject_name # NoText => ilike(SubjectOf(e).name, subject_name))
        /\ (exam_type # None => e.exam_type = exam_type) }

\* A date argument that was not given.
NoDate == 0

\* select(Attendance).where(Attendance.student_id == student.id) with the
\* optional date bounds
SelectAttendance(path, student_pk, start_date, end_date) ==
    { a \in Attendances :
        /\ a.part = path
        /\ a.student_pk = student_pk
        /\ (start_date # NoDate => a.date >= start_date)
        /\ (end_date # NoDate => a.date <= end_date) }

\* select(Class).where(Class.class_id == class_id)
SelectClass(path, class_id) ==
    { c \in Classes : c.part = path /\ c.class_id = class_id }

\* select(Student, User).where(Student.class_id == class_info.id)
SelectClassStudents(path, class_pk) ==
    { s \in Students : s.part = path /\ s.class_pk = class_pk }

\* the exam rows joined to the students of the class
SelectClassExams(path, class_pk) ==
    { e \in ExamResults :
        /\ e.part = path
        /\ \E s \in SelectClassStudents(path, class_pk) : s.pk = e.student_pk }


(***************************************************************************)
(* db_tools.py: what the tool operations return                            *)
(***************************************************************************)
\* {"error": message}; a message is the sequence of its parts.
Error(msg) == [error |-> msg]

MsgStudentIdRequired(op) ==
    IF op = "get_student_info" THEN <<"Student ID required for non-student users">>
    ELSE <<"Student ID required">>

MsgAccessDenied(op) ==
    IF op = "get_student_info"
    THEN <<"Access denied: You don't have permission to view this student's data">>
    ELSE <<"Access denied">>

MsgStudentNotFound(op, student_id) ==
    IF op = "get_student_info" THEN <<"Student ", student_id, " not found">>
    ELSE <<"Student not found">>

MsgClassDenied == <<"Access denied: Only admins and teachers can view class statistics">>

MsgClassNotFound == <<"Class not found">>

StudentOps ==
    {"get_student_info", "get_student_attendance", "get_exam_results",
     "get_performance_analysis"}

ToolOps == StudentOps \cup {"get_class_performance"}

\* The arguments of one tool call; an argument the operation does not take
\* or that was omitted holds None (NoText, NoDate).
Call(op, student_id, subject_name, exam_type, start_date, end_date, class_id) ==
    [op |-> op, student_id |-> student_id, subject_name |-> subject_name,
     exam_type |-> exam_type, start_date |-> start_date, end_date |-> end_date,
     class_id |-> class_id]

NoCall == Call(None, None, NoText, None, NoDate, NoDate, None)

\* "Determine which student to query": the explicit id, else the student's
\* own id, else the missing-parameter error; UserRole() may raise.
ResolveStudent(auth_payload, student_id) ==
    IF student_id # None THEN [kind |-> "target", student_id |-> student_id]
    ELSE IF UserRoleRaises(auth_payload.role)
         THEN [kind |-> "raised", student_id |-> None]
    ELSE IF auth_payload.role = "student"
         THEN [kind |-> "target", student_id |-> auth_payload.student_id]
    ELSE [kind |-> "missing", student_id |-> None]

\* Variant: the denial answers not-found when the target is not stored.
StudentGate_lookup_first(auth_payload, op, student_id) ==
    LET rs == ResolveStudent(auth_payload, student_id)
        acc == can_access_student_data(auth_payload, rs.student_id)
        known == \E s \in Students :
                    s.part = auth_payload.schema_name /\ s.student_id = rs.student_id
    IN  IF rs.kind = "raised"
        THEN [gate |-> "raised", value |-> Raised("ValueError"), target |-> None]
        ELSE IF rs.kind = "missing"
        THEN [gate |-> "missing", value |-> Error(MsgStudentIdRequired(op)),
              target |-> None]
        ELSE IF acc = "ValueError"
        THEN [gate |-> "raised", value |-> Raised("ValueError"), target |-> rs.student_id]
        ELSE IF acc = "false"
        THEN [gate |-> "denied",
              value |-> IF known THEN Error(MsgAccessDenied(op))
                        ELSE Error(MsgStudentNotFound(op, rs.student_id)),
              target |-> rs.student_id]
        ELSE [gate |-> "allowed", value |-> Error(<< >>), target |-> rs.student_id]

\* The entry of a student-scoped operation, up to its "try": resolve the
\* target, then "Check RBAC".  gate: raised | missing | denied | allowed.
StudentGate(auth_payload, op, student_id) ==
    LET rs == ResolveStudent(auth_payload, student_id)
        acc == can_access_student_data(auth_payload, rs.student_id)
    IN  IF rs.kind = "raised"
        THEN [gate |-> "raised", value |-> Raised("ValueError"), target |-> None]
        ELSE IF rs.kind = "missing"
        THEN [gate |-> "missing", value |-> Error(MsgStudentIdRequired(op)),
              target |-> None]
        ELSE IF acc = "ValueError"
        THEN [gate |-> "raised", value |-> Raised("ValueError"), target |-> rs.student_id]
        ELSE IF acc = "false"
        THEN [gate |-> "denied", value |-> Error(MsgAccessDenied(op)),
              target |-> rs.student_id]
        ELSE [gate |-> "allowed", value |-> Error(<< >>), target |-> rs.student_id]

\* Variant: the role list also holds STUDENT.
ClassGate_student(auth_payload, class_id) ==
    IF UserRoleRaises(auth_payload.role)
    THEN [gate |-> "raised", value |-> Raised("ValueError"), target |-> None]
    ELSE IF auth_payload.role \notin {"admin", "teacher", "student"}
    THEN [gate |-> "denied", value |-> Error(MsgClassDenied), target |-> None]
    ELSE [gate |-> "allowed", value |-> Error(<< >>), target |-> None]

\* Variant: the role list holds ADMIN alone.
ClassGate_admin_only(auth_payload, class_id) ==
    IF UserRoleRaises(auth_payload.role)
    THEN [gate |-> "raised", value |-> Raised("ValueError"), target |-> None]
    ELSE IF auth_payload.role \notin {"admin"}
    THEN [gate |-> "denied", value |-> Error(MsgClassDenied), target |-> None]
    ELSE [gate |-> "allowed", value |-> Error(<< >>), target |-> None]

\* get_class_performance "Check permissions": role in [ADMIN, TEACHER]
ClassGate(auth_payload, class_id) ==
    IF UserRoleRaises(auth_payload.role)
    THEN [gate |-> "raised", value |-> Raised("ValueError"), target |-> None]
    ELSE IF auth_payload.role \notin {"admin", "teacher"}
    THEN [gate |-> "denied", value |-> Error(MsgClassDenied), target |-> None]
    ELSE [gate |-> "allowed", value |-> Error(<< >>), target |-> None]

ClassOf(s) == CHOOSE c \in Classes : c.part = s.part /\ c.pk = s.class_pk

Count(S, st) == Cardinality({ a \in S : a.status = st })

\* round(n / d * 100, 2) in hundredths of a percent, 0 when d = 0; round()
\* goes to the nearest hundredth and, half-way between two, to the even one.
Pct100(n, d) ==
    IF d > 0
    THEN LET q == (n * 10000) \div d
             rem == (n * 10000) % d
         IN  IF 2 * rem > d THEN q + 1
             ELSE IF 2 * rem = d THEN q + (q % 2)
             ELSE q
    ELSE 0

RECURSIVE SortedDesc(_)
\* order_by(desc(Attendance.date))
SortedDesc(S) ==
    IF S = {} THEN << >>
    ELSE LET m == CHOOSE x \in S : \A y \in S : y.date <= x.date
         IN  <<m>> \o SortedDesc(S \ {m})

RecentWindow == 10

Head10(sq) == SubSeq(sq, 1, IF Len(sq) < RecentWindow THEN Len(sq) ELSE RecentWindow)

\* the dates of the absent records among attendance_records[:10]
RecentAbsences(sq) ==
    LET h == Head10(sq)
        F[i \in 0..Len(h)] ==
            IF i = 0 THEN << >>
            ELSE IF h[i].status = "absent" THEN Append(F[i - 1], h[i].date)
            ELSE F[i - 1]
    IN  F[Len(h)]

StudentInfoData(s) ==
    [student_id |-> s.student_id, name |-> s.name, class |-> ClassOf(s).name]

\* Variant: a late day counts as a day present in the percentage.
AttendanceData_late_present(student_id, s, rows) ==
    [student_id |-> student_id, student_name |-> s.name,
     total_days |-> Cardinality(rows),
     present_days |-> Count(rows, "present"), absent_days |-> Count(rows, "absent"),
     late_days |-> Count(rows, "late"), excused_days |-> Count(rows, "excused"),
     attendance_percentage |->
        Pct100(Count(rows, "present") + Count(rows, "late"), Cardinality(rows)),
     recent_absences |-> RecentAbsences(SortedDesc(rows))]

AttendanceData(student_id, s, rows) ==
    [student_id |-> student_id, student_name |-> s.name,
     total_days |-> Cardinality(rows),
     present_days |-> Count(rows, "present"), absent_days |-> Count(rows, "absent"),
     late_days |-> Count(rows, "late"), excused_days |-> Count(rows, "excused"),
     attendance_percentage |-> Pct100(Count(rows, "present"), Cardinality(rows)),
     recent_absences |-> RecentAbsences(SortedDesc(rows))]

\* A float the code computes by division is kept as the exact fraction
\* num / den (den > 0).
Frac(num, den) == [num |-> num, den |-> den]

\* round(x, 2) of a fraction, in hundredths
Round2(f) ==
    LET q == (f.num * 100) \div f.den
        rem == (f.num * 100) % f.den
    IN  IF 2 * rem > f.den THEN q + 1
        ELSE IF 2 * rem = f.den THEN q + (q % 2)
        ELSE q

\* Variant: the factor 100 is missing.
percentage_ratio(e) ==
    IF e.max_marks > 0 THEN Frac(e.marks_obtained, e.max_marks) ELSE Frac(0, 1)

\* models.py ExamResult.percentage
percentage(e) ==
    IF e.max_marks > 0 THEN Frac(e.marks_obtained * 100, e.max_marks) ELSE Frac(0, 1)

ExamRecord(e) ==
    [subject |-> SubjectOf(e).name, exam_type |-> e.exam_type,
     marks_obtained |-> e.marks_obtained, max_marks |-> e.max_marks,
     percentage |-> Round2(percentage(e))]

ExamResultsData(student_id, s, rows) ==
    [student_id |-> student_id, student_name |-> s.name,
     total_exams |-> Cardinality(rows), results |-> { ExamRecord(e) : e \in rows }]

RECURSIVE SumPercentage(_)
\* sum(scores) over the percentages of a set of exam rows
SumPercentage(S) ==
    IF S = {} THEN Frac(0, 1)
    ELSE LET e == CHOOSE x \in S : TRUE
             p == percentage(e)
             t == SumPercentage(S \ {e})
         IN  Frac(p.num * t.den + t.num * p.den, p.den * t.den)

\* sum(scores) / len(scores) if scores else 0
Average(S) ==
    IF S = {} THEN Frac(0, 1)
    ELSE Frac(SumPercentage(S).num, SumPercentage(S).den * Cardinality(S))

\* x >= k and x < k for a fraction x and a whole number k
AtLeast(f, k) == f.num >= k * f.den

Below(f, k) == f.num < k * f.den

\* An insight or recommendation: its fixed text and the subject names joined
\* into it (the result rows come unordered, so their order is not fixed).
Entry(msg, subjects) == [msg |-> msg, subjects |-> subjects]

\* subject_averages, as the subjects whose average is below 60 (weak) or at
\* least 85 (strong)
SubjectsWhere(exams, weak) ==
    { SubjectOf(e).name : e \in
        { x \in exams :
            LET avg == Average({ y \in exams : SubjectOf(y).name = SubjectOf(x).name })
            IN  IF weak THEN Below(avg, 60) ELSE AtLeast(avg, 85) } }

\* Variant: the first band starts above 90.
TierInsight_above(avg_performance) ==
    IF ~AtLeast(avg_performance, 90) \/ avg_performance.num = 90 * avg_performance.den
    THEN (IF AtLeast(avg_performance, 75)
          THEN Entry("Good performance. Focus on weaker subjects to excel further.", {})
          ELSE IF AtLeast(avg_performance, 60)
          THEN Entry("Average performance. More effort needed in several subjects.", {})
          ELSE Entry("Performance needs improvement. Consider seeking additional help.", {}))
    ELSE Entry("Excellent overall performance! Keep up the great work.", {})

\* "Performance insights": the if / elif chain on avg_performance
TierInsight(avg_performance) ==
    IF AtLeast(avg_performance, 90)
    THEN Entry("Excellent overall performance! Keep up the great work.", {})
    ELSE IF AtLeast(avg_performance, 75)
    THEN Entry("Good performance. Focus on weaker subjects to excel further.", {})
    ELSE IF AtLeast(avg_performance, 60)
    THEN Entry("Average performance. More effort needed in several subjects.", {})
    ELSE Entry("Performance needs improvement. Consider seeking additional help.", {})

\* Variant: the maintain-habits entry is appended after the two general ones.
generate_recommendations_late(avg_performance, attendance_percentage, weak_subjects) ==
    (IF Below(attendance_percentage, 85)
     THEN <<Entry("Improve attendance to at least 85% for better academic outcomes", {})>>
     ELSE << >>)
    \o (IF Below(avg_performance, 75)
        THEN <<Entry("Schedule regular study sessions and seek teacher guidance", {})>>
        ELSE << >>)
    \o (IF weak_subjects # {}
        THEN <<Entry("Focus extra study time on: ", weak_subjects),
               Entry("Consider joining study groups or tutoring for weak subjects", {})>>
        ELSE << >>)
    \o <<Entry("Set specific, measurable goals for each subject", {}),
         Entry("Review and revise regularly instead of last-minute cramming", {})>>
    \o (IF AtLeast(avg_performance, 85)
        THEN <<Entry("Maintain current study habits and explore advanced topics", {})>>
        ELSE << >>)

\* DatabaseQueryTools._generate_recommendations
generate_recommendations(avg_performance, attendance_percentage, weak_subjects) ==
    (IF Below(attendance_percentage, 85)
     THEN <<Entry("Improve attendance to at least 85% for better academic outcomes", {})>>
     ELSE << >>)
    \o (IF Below(avg_performance, 75)
        THEN <<Entry("Schedule regular study sessions and seek teacher guidance", {})>>
        ELSE << >>)
    \o (IF weak_subjects # {}
        THEN <<Entry("Focus extra study time on: ", weak_subjects),
               Entry("Consider joining study groups or tutoring for weak subjects", {})>>
        ELSE << >>)
    \o (IF AtLeast(avg_performance, 85)
        THEN <<Entry("Maintain current study habits and explore advanced topics", {})>>
        ELSE << >>)
    \o <<Entry("Set specific, measurable goals for each subject", {}),
         Entry("Review and revise regularly instead of last-minute cramming", {})>>

PerformanceData(student_id, s, exams, att) ==
    LET avg_performance == Average(exams)
        attendance_percentage ==
            IF att = {} THEN Frac(0, 1)
            ELSE Frac(Count(att, "present") * 100, Cardinality(att))
        weak_subjects == SubjectsWhere(exams, TRUE)
        strong_subjects == SubjectsWhere(exams, FALSE)
    IN  [student_id |-> student_id, student_name |-> s.name,
         total_exams |-> Cardinality(exams),
         average_percentage |-> Round2(avg_performance),
         attendance_percentage |-> Round2(attendance_percentage),
         insights |->
            <<TierInsight(avg_performance)>>
            \o (IF Below(attendance_percentage, 75)
                THEN <<Entry("Low attendance detected. Regular attendance is crucial for better performance.", {})>>
                ELSE << >>)
            \o (IF weak_subjects # {}
                THEN <<Entry("Need improvement in: ", weak_subjects)>> ELSE << >>)
            \o (IF strong_subjects # {}
                THEN <<Entry("Excelling in: ", strong_subjects)>> ELSE << >>),
         recommendations |->
            generate_recommendations(avg_performance, attendance_percentage,
                                     weak_subjects)]

ClassPerformanceData(class_id, c, studs, exams) ==
    [class_id |-> class_id, class_name |-> c.name,
     total_students |-> Cardinality(studs),
     total_exams_conducted |-> Cardinality(exams)]


(***************************************************************************)
(* Requests                                                                *)
(***************************************************************************)
Header(scheme, token) == [scheme |-> scheme, token |-> token]

NoHeader == Header("absent", NoToken)

\* The identities a slot's tokens name, and the tokens: well-formed ones and,
\* for each, one with a bad signature, one incomplete and one expired.
Identities(r) ==
    IF r = "r1"
    THEN [role : RoleStrings, schema_name : Tenants, student_id : {"S1", None}]
    ELSE [role : {"admin"}, schema_name : {"t2"}, student_id : {None}]

Tokens(r) ==
    UNION { { Token(TRUE, TRUE, i.role, i.schema_name, i.student_id, 2),
              Token(FALSE, TRUE, i.role, i.schema_name, i.student_id, 2),
              Token(TRUE, FALSE, i.role, i.schema_name, i.student_id, 2),
              Token(TRUE, TRUE, i.role, i.schema_name, i.student_id, 0) }
            : i \in Identities(r) }

Headers(r) ==
    IF r = "r1"
    THEN { Header(sc, t) : sc \in {"Bearer ", "Basic "}, t \in Tokens(r) }
            \cup {NoHeader}
    ELSE { Header("Bearer ", t) : t \in { k \in Tokens(r) : k.sig /\ k.complete } }

\* The tool calls the language model may ask for.
Calls(r) ==
    IF r = "r1"
    THEN { Call("get_student_info", sid, NoText, None, NoDate, NoDate, None)
             : sid \in {None, "S1", "S2"} } \cup
         { Call("get_student_attendance", sid, NoText, None, sd, ed, None)
             : sid \in {None, "S1", "S2"}, sd \in {NoDate, 2}, ed \in {NoDate, 2} } \cup
         { Call("get_exam_results", sid, sn, et, NoDate, NoDate, None)
             : sid \in {None, "S1", "S2"}, sn \in {NoText, Str_ma},
               et \in {None, "final"} } \cup
         { Call("get_performance_analysis", sid, NoText, None, NoDate, NoDate, None)
             : sid \in {None, "S1", "S2"} } \cup
         { Call("get_class_performance", None, NoText, None, NoDate, NoDate, cid)
             : cid \in {"C1", "C9"} }
    ELSE { Call("get_student_info", "S1", NoText, None, NoDate, NoDate, None),
           Call("get_student_attendance", "S1", NoText, None, 3, NoDate, None),
           Call("get_class_performance", None, NoText, None, NoDate, NoDate, "C1") }

NoAgent == [schema_name |-> None, auth_payload |-> NoAuth]

NoResult == [pending |-> TRUE]

\* The slot's request is over: every per-request value is dropped.
Cleared(r) ==
    /\ pc' = [pc EXCEPT ![r] = "idle"]
    /\ hdr' = [hdr EXCEPT ![r] = NoHeader]
    /\ auth' = [auth EXCEPT ![r] = NoAuth]
    /\ status' = [status EXCEPT ![r] = 0]
    /\ agent' = [agent EXCEPT ![r] = NoAgent]
    /\ call' = [call EXCEPT ![r] = NoCall]
    /\ target' = [target EXCEPT ![r] = None]
    /\ found' = [found EXCEPT ![r] = {}]
    /\ gate' = [gate EXCEPT ![r] = "none"]
    /\ qlog' = [qlog EXCEPT ![r] = << >>]
    /\ result' = [result EXCEPT ![r] = NoResult]

InitGateway ==
    /\ enable_schema_isolation \in BOOLEAN
    /\ conn = [c \in Conns |-> DefaultSearchPath]
    /\ owner = [c \in Conns |-> Free]
    /\ pc = [r \in Reqs |-> "idle"]
    /\ hdr = [r \in Reqs |-> NoHeader]
    /\ auth = [r \in Reqs |-> NoAuth]
    /\ status = [r \in Reqs |-> 0]
    /\ agent = [r \in Reqs |-> NoAgent]
    /\ call = [r \in Reqs |-> NoCall]
    /\ target = [r \in Reqs |-> None]
    /\ sess = [r \in Reqs |-> NoConn]
    /\ found = [r \in Reqs |-> {}]
    /\ gate = [r \in Reqs |-> "none"]
    /\ qlog = [r \in Reqs |-> << >>]
    /\ result = [r \in Reqs |-> NoResult]
    /\ store = InitialStore

\* A request arrives with its Authorization header.
receive(r) ==
    /\ pc[r] = "idle"
    /\ \E h \in Headers(r) : hdr' = [hdr EXCEPT ![r] = h]
    /\ pc' = [pc EXCEPT ![r] = "received"]
    /\ UNCHANGED <<auxVars, enable_schema_isolation, now, tz, conn, owner, auth, status, agent,
                   call, target, sess, found, gate, qlog, result, dec, flt, store, pol>>

\* authorization.startswith("Bearer ")
startswith_bearer(h) == h.scheme = "Bearer "

\* Variant: the "if not auth_payload" test is missing.
get_current_user_unchecked(r) ==
    /\ pc[r] = "received"
    /\ LET h == hdr[r]
           a == decode_token(h.token, now, tz)
       IN  IF h = NoHeader
           THEN /\ status' = [status EXCEPT ![r] = 422]
                /\ pc' = [pc EXCEPT ![r] = "rejected"]
                /\ auth' = auth
           ELSE IF ~startswith_bearer(h)
           THEN /\ status' = [status EXCEPT ![r] = 401]
                /\ pc' = [pc EXCEPT ![r] = "rejected"]
                /\ auth' = auth
           ELSE /\ auth' = [auth EXCEPT ![r] = a]
                /\ pc' = [pc EXCEPT ![r] = "authed"]
                /\ status' = status
    /\ UNCHANGED <<auxVars, enable_schema_isolation, now, tz, conn, owner, hdr, agent,
                   call, target, sess, found, gate, qlog, result, dec, flt, store, pol>>

\* The dependency get_current_user: 401 unless the header is a bearer header
\* whose token decode_token accepts.  A request without the required header
\* is answered 422 by the framework before the function runs.
get_current_user(r) ==
    /\ pc[r] = "received"
    /\ LET h == hdr[r]
           a == decode_token(h.token, now, tz)
       IN  IF h = NoHeader
           THEN /\ status' = [status EXCEPT ![r] = 422]
                /\ pc' = [pc EXCEPT ![r] = "rejected"]
                /\ auth' = auth
           ELSE IF ~startswith_bearer(h) \/ a = NoAuth
           THEN /\ status' = [status EXCEPT ![r] = 401]
                /\ pc' = [pc EXCEPT ![r] = "rejected"]
                /\ auth' = auth
           ELSE /\ auth' = [auth EXCEPT ![r] = a]
                /\ pc' = [pc EXCEPT ![r] = "authed"]
                /\ status' = status
    /\ UNCHANGED <<auxVars, enable_schema_isolation, now, tz, conn, owner, hdr, agent,
                   call, target, sess, found, gate, qlog, result, dec, flt, store, pol>>

\* http_exception_handler: the error response ends the request.
http_exception_handler(r) ==
    /\ pc[r] = "rejected"
    /\ Cleared(r)
    /\ UNCHANGED <<auxVars, enable_schema_isolation, now, tz, conn, owner, sess, dec, flt, store, pol>>

\* Variant: the agent is built for the configured default schema instead of
\* the schema the token names.
get_agent_default_schema(r) ==
    /\ pc[r] = "authed"
    /\ agent' = [agent EXCEPT ![r] =
                    [schema_name |-> "t1", auth_payload |-> auth[r]]]
    /\ pc' = [pc EXCEPT ![r] = "agent"]
    /\ UNCHANGED <<auxVars, enable_schema_isolation, now, tz, conn, owner, hdr, auth,
                   status, call, target, sess, found, gate, qlog, result, dec, flt,
                   store, pol>>

\* The dependency get_agent: create_chatbot_agent(auth.schema_name, auth), whose
\* DatabaseQueryTools keeps both.
get_agent(r) ==
    /\ pc[r] = "authed"
    /\ agent' = [agent EXCEPT ![r] =
                    [schema_name |-> auth[r].schema_name, auth_payload |-> auth[r]]]
    /\ pc' = [pc EXCEPT ![r] = "agent"]
    /\ UNCHANGED <<auxVars, enable_schema_isolation, now, tz, conn, owner, hdr, auth, status,
                   call, target, sess, found, gate, qlog, result, dec, flt, store, pol>>

\* A tool operation starts: its code up to the "try" runs without suspension.
Enter(r, c, g) ==
    /\ pc[r] = "agent"
    /\ call' = [call EXCEPT ![r] = c]
    /\ gate' = [gate EXCEPT ![r] = g.gate]
    /\ target' = [target EXCEPT ![r] = g.target]
    /\ found' = [found EXCEPT ![r] = {}]
    /\ qlog' = [qlog EXCEPT ![r] = << >>]
    /\ IF g.gate = "allowed"
       THEN /\ pc' = [pc EXCEPT ![r] = "session"]
            /\ result' = [result EXCEPT ![r] = NoResult]
       ELSE /\ pc' = [pc EXCEPT ![r] = "done"]
            /\ result' = [result EXCEPT ![r] = g.value]
    /\ UNCHANGED <<auxVars, enable_schema_isolation, now, tz, conn, owner, hdr, auth, status,
                   agent, sess, dec, flt, store, pol>>

StudentOpEnter(r, op) ==
    \E c \in Calls(r) :
        /\ c.op = op
        /\ Enter(r, c, StudentGate(agent[r].auth_payload, op, c.student_id))

get_student_info(r) == StudentOpEnter(r, "get_student_info")

get_student_attendance(r) == StudentOpEnter(r, "get_student_attendance")

get_exam_results(r) == StudentOpEnter(r, "get_exam_results")

get_performance_analysis(r) == StudentOpEnter(r, "get_performance_analysis")

get_class_performance(r) ==
    \E c \in Calls(r) :
        /\ c.op = "get_class_performance"
        /\ Enter(r, c, ClassGate(agent[r].auth_payload, c.class_id))


(***************************************************************************)
(* database.py: DatabaseService.get_session, and the queries run inside it *)
(***************************************************************************)
\* "if schema_name and self.settings.enable_schema_isolation"
SetsSearchPath(schema_name, isolation) ==
    schema_name # None /\ schema_name # "" /\ isolation

\* Entering get_session: the session takes a pooled connection (with its
\* first statement) and, when the condition holds, that statement is SET
\* search_path.  The setting is the connection's own and, once committed,
\* stays with it in the pool.
get_session_enter(r) ==
    /\ pc[r] = "session"
    /\ \E c \in Conns :
        /\ owner[c] = Free
        /\ owner' = [owner EXCEPT ![c] = r]
        /\ sess' = [sess EXCEPT ![r] = c]
        /\ conn' = IF SetsSearchPath(agent[r].schema_name, enable_schema_isolation)
                   THEN [conn EXCEPT ![c] = agent[r].schema_name]
                   ELSE conn
    /\ pc' = [pc EXCEPT ![r] = "lookup"]
    /\ UNCHANGED <<auxVars, enable_schema_isolation, now, tz, hdr, auth, status, agent,
                   call, target, found, gate, qlog, result, dec, flt, store, pol>>

Query(q, path, rows) == [q |-> q, path |-> path, rows |-> rows]

\* The first query of an operation: the student (or class) row.  Without a
\* row the not-found error is returned; get_student_info returns its data.
query_lookup(r) ==
    /\ pc[r] = "lookup"
    /\ LET path == conn[sess[r]]
           c == call[r]
           rows == IF c.op = "get_class_performance"
                   THEN SelectClass(path, c.class_id)
                   ELSE SelectStudent(path, target[r])
           row == CHOOSE x \in rows : TRUE
       IN  /\ qlog' = [qlog EXCEPT ![r] = Append(@, Query("lookup", path, rows))]
           /\ found' = [found EXCEPT ![r] = rows]
           /\ IF rows = {}
              THEN /\ result' = [result EXCEPT ![r] =
                        IF c.op = "get_class_performance" THEN Error(MsgClassNotFound)
                        ELSE Error(MsgStudentNotFound(c.op, target[r]))]
                   /\ pc' = [pc EXCEPT ![r] = "exit"]
              ELSE IF c.op = "get_student_info"
              THEN /\ result' = [result EXCEPT ![r] = StudentInfoData(row)]
                   /\ pc' = [pc EXCEPT ![r] = "exit"]
              ELSE /\ result' = result
                   /\ pc' = [pc EXCEPT ![r] = "data"]
    /\ UNCHANGED <<auxVars, enable_schema_isolation, now, tz, conn, owner, hdr, auth, status,
                   agent, call, target, sess, gate, dec, flt, store, pol>>

\* Variant: the date bounds are kept in one place that every call writes, so
\* a call reads those of another call in progress.
DateRange_shared(r) ==
    LET others == { q \in Reqs \ {r} : call[q].op = "get_student_attendance" }
        w == IF others = {} THEN r ELSE CHOOSE q \in others : TRUE
    IN  [start |-> call[w].start_date, end |-> call[w].end_date]

\* start_date and end_date are the call's own arguments.
DateRange(r) == [start |-> call[r].start_date, end |-> call[r].end_date]

\* The remaining queries of an operation and the value it builds from them.
query_data(r) ==
    /\ pc[r] = "data"
    /\ LET path == conn[sess[r]]
           c == call[r]
           row == CHOOSE x \in found[r] : TRUE
           att == SelectAttendance(path, row.pk, DateRange(r).start, DateRange(r).end)
           exf == SelectExamResults(path, row.pk, c.subject_name, c.exam_type)
           exa == SelectExamResults(path, row.pk, NoText, None)
           ata == SelectAttendance(path, row.pk, NoDate, NoDate)
           cst == SelectClassStudents(path, row.pk)
           cex == SelectClassExams(path, row.pk)
       IN  CASE c.op = "get_student_attendance" ->
                 /\ qlog' = [qlog EXCEPT ![r] = Append(@, Query("attendance", path, att))]
                 /\ result' = [result EXCEPT ![r] = AttendanceData(target[r], row, att)]
             [] c.op = "get_exam_results" ->
                 /\ qlog' = [qlog EXCEPT ![r] = Append(@, Query("exams", path, exf))]
                 /\ result' = [result EXCEPT ![r] = ExamResultsData(target[r], row, exf)]
             [] c.op = "get_performance_analysis" ->
                 /\ qlog' = [qlog EXCEPT ![r] =
                        @ \o <<Query("exams", path, exa), Query("attendance", path, ata)>>]
                 /\ result' = [result EXCEPT ![r] =
                        PerformanceData(target[r], row, exa, ata)]
             [] OTHER ->
                 /\ qlog' = [qlog EXCEPT ![r] =
                        @ \o <<Query("students", path, cst), Query("exams", path, cex)>>]
                 /\ result' = [result EXCEPT ![r] =
                        ClassPerformanceData(c.class_id, row, cst, cex)]
    /\ pc' = [pc EXCEPT ![r] = "exit"]
    /\ UNCHANGED <<auxVars, enable_schema_isolation, now, tz, conn, owner, hdr, auth, status,
                   agent, call, target, sess, found, gate, dec, flt, store, pol>>

\* Variant: a loaded row was changed in place (a status normalised on the
\* object instead of in the returned dict), and the commit writes it back.
commit_dirty(st) ==
    [st EXCEPT !.attendance =
        { [a EXCEPT !.status = IF a.status = "late" THEN "present" ELSE a.status]
            : a \in st.attendance }]

\* session.commit(): the operations only SELECT and change no loaded object,
\* so the session has nothing to write.
commit(st) == st

\* Leaving get_session: commit, close; the connection goes back to the pool
\* with the search_path it has.  The operation then returns its value.
get_session_exit(r) ==
    /\ pc[r] = "exit"
    /\ store' = commit(store)
    /\ owner' = [owner EXCEPT ![sess[r]] = Free]
    /\ sess' = [sess EXCEPT ![r] = NoConn]
    /\ pc' = [pc EXCEPT ![r] = "done"]
    /\ UNCHANGED <<auxVars, enable_schema_isolation, now, tz, conn, hdr, auth, status, agent,
                   call, target, found, gate, qlog, result, dec, flt, pol>>

\* The workflow edge tools -> agent: the operation's value has been handed to
\* the language model, which may ask for another call.
tool_node_return(r) ==
    /\ pc[r] = "done"
    /\ pc' = [pc EXCEPT ![r] = "agent"]
    /\ call' = [call EXCEPT ![r] = NoCall]
    /\ target' = [target EXCEPT ![r] = None]
    /\ found' = [found EXCEPT ![r] = {}]
    /\ gate' = [gate EXCEPT ![r] = "none"]
    /\ qlog' = [qlog EXCEPT ![r] = << >>]
    /\ result' = [result EXCEPT ![r] = NoResult]
    /\ UNCHANGED <<auxVars, enable_schema_isolation, now, tz, conn, owner, hdr, auth, status,
                   agent, sess, dec, flt, store, pol>>

\* The /chat endpoint returns its ChatResponse: the request is over.
chat(r) ==
    /\ pc[r] = "agent"
    /\ Cleared(r)
    /\ UNCHANGED <<auxVars, enable_schema_isolation, now, tz, conn, owner, sess, dec, flt, store, pol>>

\* The chatbot database of Chat-bot-project: each table is absent, empty or
\* holds rows.
SqlTables == [users |-> "rows", users_copy |-> "absent"]

NoSql == [dialect |-> "sqlite", tables |-> SqlTables, query |-> << >>,
          passed |-> << >>, reply |-> "none"]

NoWf == [node |-> "none", prev |-> "none", messages |-> << >>, error |-> None,
         final_answer |-> None, steps |-> 0, executed |-> 0, reply |-> "none"]

NoLc == [schema_name |-> None, at |-> "none", open |-> FALSE, tx |-> "none",
         log |-> << >>, exc |-> "none", raised |-> "none", closes |-> 0]

NoRt == [made |-> FALSE, args |-> << >>, expire |-> 0, tok |-> NoToken,
         out |-> NoAuth, at |-> 0, done |-> FALSE]

NoDec == [tok |-> NoToken, out |-> NoAuth, done |-> FALSE]

NoFlt == [auth_payload |-> NoAuth, base |-> << >>, out |-> << >>, again |-> << >>,
          done |-> FALSE]

NoPol == [student_id |-> None, class_id |-> None, student_out |-> "none",
          class_out |-> "none"]

Init ==
    /\ InitGateway
    /\ now = TicksPerSec
    /\ tz = 0
    /\ dec = NoDec
    /\ flt = NoFlt
    /\ pol = NoPol
    /\ sql = NoSql
    /\ wf = NoWf
    /\ lc = NoLc
    /\ rt = NoRt

Next ==
    \E r \in Reqs :
        \/ receive(r)
        \/ get_current_user(r)
        \/ http_exception_handler(r)
        \/ get_agent(r)
        \/ get_student_info(r)
        \/ get_student_attendance(r)
        \/ get_exam_results(r)
        \/ get_performance_analysis(r)
        \/ get_class_performance(r)
        \/ get_session_enter(r)
        \/ query_lookup(r)
        \/ query_data(r)
        \/ get_session_exit(r)
        \/ tool_node_return(r)
        \/ chat(r)

Spec == Init /\ [][Next]_vars


(***************************************************************************)
(* SpecToken: decode_token on its own, over tokens, clocks and time zones  *)
(***************************************************************************)
MaxExp == 3

MaxTicks == 8

TzOffsets == {-1, 0, 1}

TokenSamples ==
    { Token(sg, cp, ro, "t1", sid, e) :
        sg \in BOOLEAN, cp \in BOOLEAN, ro \in RoleStrings, sid \in {"S1", None},
        e \in 0..MaxExp }

InitToken ==
    /\ InitGateway
    /\ enable_schema_isolation
    /\ now \in 0..MaxTicks
    /\ tz \in TzOffsets
    /\ dec \in [tok : TokenSamples, out : {NoAuth}, done : {FALSE}]
    /\ flt = NoFlt
    /\ pol = NoPol
    /\ sql = NoSql
    /\ wf = NoWf
    /\ lc = NoLc
    /\ rt = NoRt

\* auth_service.decode_token(token) at the current time
decode_token_call ==
    /\ ~dec.done
    /\ dec' = [dec EXCEPT !.out = decode_token(dec.tok, now, tz), !.done = TRUE]
    /\ UNCHANGED <<auxVars, gwVars, now, tz, flt, store, pol>>

\* Time passes; the token may be presented again.
tick ==
    /\ now < MaxTicks
    /\ now' = now + 1
    /\ dec' = [dec EXCEPT !.out = NoAuth, !.done = FALSE]
    /\ UNCHANGED <<auxVars, gwVars, tz, flt, store, pol>>

NextToken == decode_token_call \/ tick

SpecToken == InitToken /\ [][NextToken]_vars

(***************************************************************************)
(* SpecPolicy: filter_query_by_role on its own                             *)
(***************************************************************************)
PolicyIdentities ==
    [role : RoleStrings, schema_name : {"t1"}, student_id : {"S1", "S2", None},
     teacher_id : {"T1", None}, exp : {2}]

FilterValues(k) ==
    CASE k = "student_id" -> {"S1", "S2", None}
      [] k = "subject_name" -> {"Math"}
      [] OTHER -> {"C1"}

FilterKeys == {"student_id", "subject_name", "class_id"}

FilterDicts ==
    UNION { { f \in [K -> UNION { FilterValues(k) : k \in K }] :
                \A k \in K : f[k] \in FilterValues(k) }
            : K \in SUBSET FilterKeys }

InitPolicy ==
    /\ InitGateway
    /\ enable_schema_isolation
    /\ now = TicksPerSec
    /\ tz = 0
    /\ dec = NoDec
    /\ flt \in [auth_payload : PolicyIdentities, base : FilterDicts, out : {<< >>},
                again : {<< >>}, done : {FALSE}]
    /\ pol \in [student_id : {"S1", "S2", None}, class_id : {"C1", "C9"},
                student_out : {"none"}, class_out : {"none"}]
    /\ sql = NoSql
    /\ wf = NoWf
    /\ lc = NoLc
    /\ rt = NoRt

\* RBACService.filter_query_by_role(auth_payload, base_filters), and once
\* more on what it returned.
filter_call ==
    /\ ~flt.done
    /\ LET o == filter_query_by_role(flt.auth_payload, flt.base)
       IN  flt' = [flt EXCEPT !.out = o,
                              !.again = IF o = Raised("ValueError") THEN o
                                        ELSE filter_query_by_role(flt.auth_payload, o),
                              !.done = TRUE]
    /\ UNCHANGED <<auxVars, gwVars, now, tz, dec, store, pol>>

\* RBACService.can_access_student_data(auth_payload, target_student_id)
can_access_student_data_call ==
    /\ pol.student_out = "none"
    /\ pol' = [pol EXCEPT !.student_out =
                  can_access_student_data(flt.auth_payload, pol.student_id)]
    /\ UNCHANGED <<auxVars, gwVars, now, tz, dec, flt, store>>

\* RBACService.can_access_class_data(auth_payload, class_id)
can_access_class_data_call ==
    /\ pol.class_out = "none"
    /\ pol' = [pol EXCEPT !.class_out =
                  can_access_class_data(flt.auth_payload, pol.class_id)]
    /\ UNCHANGED <<auxVars, gwVars, now, tz, dec, flt, store>>

NextPolicy ==
    \/ filter_call
    \/ can_access_student_data_call
    \/ can_access_class_data_call

SpecPolicy == InitPolicy /\ [][NextPolicy]_vars


(***************************************************************************)
(* Properties                                                              *)
(***************************************************************************)
\* The identity a slot's tool operations act for.
Ident(r) == agent[r].auth_payload

\* The slot has a tool call in progress or just returned.
InCall(r) == call[r] # NoCall

\* A student-scoped call by a student that names another student's id.
ForeignStudentCall(r) ==
    /\ InCall(r)
    /\ call[r].op \in StudentOps
    /\ Ident(r).role = "student"
    /\ call[r].student_id # None
    /\ call[r].student_id # Ident(r).student_id

\* C1: for a student identity and a target student id other than its own,
\* can_access_student_data is false and each of the four student-scoped
\* operations returns its access-denied error, without reaching storage.
C1_StudentCannotReadOthers ==
    \A r \in Reqs :
        ForeignStudentCall(r) =>
            /\ can_access_student_data(Ident(r), call[r].student_id) = "false"
            /\ pc[r] = "done"
            /\ result[r] = Error(MsgAccessDenied(call[r].op))
            /\ qlog[r] = << >>

C1_Witness ==
    \E r \in Reqs :
        /\ ForeignStudentCall(r)
        /\ call[r].op = "get_performance_analysis"
        /\ Ident(r).student_id = "S1"
        /\ call[r].student_id = "S2"
        /\ pc[r] = "done"


\* C2: every query a tool operation executes runs on the tenant partition
\* named by the identity's schema_name and returns rows of that partition
\* only, under every configuration and every interleaving of requests.
C2_QueriesTenantScoped ==
    \A r \in Reqs :
        \A i \in 1..Len(qlog[r]) :
            /\ qlog[r][i].path = Ident(r).schema_name
            /\ \A row \in qlog[r][i].rows : row.part = Ident(r).schema_name

\* C3: when the access check of a student-scoped operation denies the
\* caller, the operation returns a value holding the error and nothing else,
\* the same for a stored and for an unknown target, and no session was
\* opened and no query executed.
C3_DenialCarriesNoData ==
    \A r \in Reqs :
        (InCall(r) /\ call[r].op \in StudentOps /\ gate[r] = "denied") =>
            /\ pc[r] = "done"
            /\ DOMAIN result[r] = {"error"}
            /\ result[r] = Error(MsgAccessDenied(call[r].op))
            /\ qlog[r] = << >>
            /\ sess[r] = NoConn

\* a denial whose target is not stored in the caller's partition
C3_Witness ==
    \E r \in Reqs :
        /\ InCall(r)
        /\ call[r].op = "get_student_info"
        /\ gate[r] = "denied"
        /\ pc[r] = "done"
        /\ Ident(r).schema_name = "t2"
        /\ target[r] = "S2"
        /\ SelectStudent("t2", target[r]) = {}

\* A student with a student_id asks for exam results without naming a
\* student and with a subject filter.
OwnExamCall(r) ==
    /\ InCall(r)
    /\ call[r].op = "get_exam_results"
    /\ Ident(r).role = "student"
    /\ Ident(r).student_id # None
    /\ call[r].student_id = None
    /\ call[r].subject_name # NoText

\* C4: such a call resolves to the identity's own student_id, runs its
\* queries in the identity's schema, and every exam row it returns belongs
\* to that student of that tenant and matches the subject filter and, when
\* given, the exam-type filter.
C4_OwnExamResultsOnly ==
    \A r \in Reqs :
        (OwnExamCall(r) /\ pc[r] = "done") =>
            /\ target[r] = Ident(r).student_id
            /\ \A i \in 1..Len(qlog[r]) :
                /\ qlog[r][i].path = Ident(r).schema_name
                /\ qlog[r][i].q = "exams" =>
                     \A e \in qlog[r][i].rows :
                        /\ e.part = Ident(r).schema_name
                        /\ \E s \in Students :
                              /\ s.part = e.part
                              /\ s.pk = e.student_pk
                              /\ s.student_id = Ident(r).student_id
                        /\ ilike(SubjectOf(e).name, call[r].subject_name)
                        /\ (call[r].exam_type # None =>
                              e.exam_type = call[r].exam_type)

\* C5: get_class_performance called by a student returns the role-denial
\* error, for a stored and for an unknown class alike, and no session is
\* opened and no query executed before it returns.
C5_StudentClassDenied ==
    \A r \in Reqs :
        (InCall(r) /\ call[r].op = "get_class_performance"
                   /\ Ident(r).role = "student") =>
            /\ pc[r] = "done"
            /\ result[r] = Error(MsgClassDenied)
            /\ qlog[r] = << >>
            /\ sess[r] = NoConn

C5_Witness ==
    \E r \in Reqs :
        /\ InCall(r)
        /\ call[r].op = "get_class_performance"
        /\ Ident(r).role = "student"
        /\ call[r].class_id = "C9"
        /\ SelectClass(Ident(r).schema_name, "C9") = {}
        /\ pc[r] = "done"

\* C7: a student identity without a student_id that calls a student-scoped
\* operation without naming a student gets an error; the call does not pass
\* the access check with the empty target and executes no query.
C7_MissingStudentIdIsError ==
    \A r \in Reqs :
        (InCall(r) /\ call[r].op \in StudentOps /\ Ident(r).role = "student"
                   /\ Ident(r).student_id = None /\ call[r].student_id = None) =>
            /\ gate[r] # "allowed"
            /\ qlog[r] = << >>
            /\ pc[r] = "done"
            /\ "error" \in DOMAIN result[r]


\* C6: for a student identity filter_query_by_role returns filters whose
\* student_id is the identity's, whatever the input held; applied to its own
\* output it returns the same filters; every other entry is unchanged.  For
\* teacher and admin identities the filters come back unchanged.
C6_ScopeFilters ==
    flt.done =>
        /\ flt.auth_payload.role = "student" =>
            /\ DOMAIN flt.out = DOMAIN flt.base \cup {"student_id"}
            /\ flt.out["student_id"] = flt.auth_payload.student_id
            /\ \A k \in DOMAIN flt.base \ {"student_id"} : flt.out[k] = flt.base[k]
            /\ flt.again = flt.out
        /\ flt.auth_payload.role \in {"teacher", "admin"} =>
            /\ flt.out = flt.base
            /\ flt.again = flt.base

\* a student whose filters name another student
C6_Witness ==
    /\ flt.done
    /\ flt.auth_payload.role = "student"
    /\ flt.auth_payload.student_id = "S1"
    /\ "student_id" \in DOMAIN flt.base
    /\ flt.base["student_id"] = "S2"
    /\ "subject_name" \in DOMAIN flt.base
    /\ flt.out["student_id"] = "S1"

\* C8: decode_token returns no identity for a correctly signed, complete,
\* unexpired token whose role is none of admin, teacher, student, parent.
C8_UnknownRoleRejected ==
    (dec.done /\ dec.tok.role \notin UserRoleValues) => dec.out = NoAuth

\* C9: decode_token returns no identity for a token whose expiry is at or
\* before the current time, the exact current time included.
C9_ExpiredRejected ==
    (dec.done /\ dec.tok.exp * TicksPerSec <= now) => dec.out = NoAuth

\* The request's header is no bearer header, or its token is one decode_token
\* rejects.
BadCredential(r) ==
    /\ hdr[r] # NoHeader
    /\ \/ ~startswith_bearer(hdr[r])
       \/ decode_token(hdr[r].token, now, tz) = NoAuth

\* C10: a request whose Authorization header does not start with "Bearer "
\* or whose token decode_token rejects is answered 401 by get_current_user,
\* and for it no agent is created, no tool operation runs and no query is
\* executed.
C10_BadCredentialStops ==
    \A r \in Reqs :
        (BadCredential(r) /\ pc[r] # "received") =>
            /\ pc[r] = "rejected"
            /\ status[r] = 401
            /\ auth[r] = NoAuth
            /\ agent[r] = NoAgent
            /\ call[r] = NoCall
            /\ gate[r] = "none"
            /\ qlog[r] = << >>
            /\ sess[r] = NoConn

\* a bearer header with an expired token, answered
C10_Witness ==
    \E r \in Reqs :
        /\ startswith_bearer(hdr[r])
        /\ hdr[r].token.sig
        /\ hdr[r].token.complete
        /\ decode_token(hdr[r].token, now, tz) = NoAuth
        /\ pc[r] = "rejected"
        /\ status[r] = 401

\* C11: whatever the identity's role string and the arguments, a tool
\* operation that has returned handed its caller a structured value, data or
\* an error, and raised no exception.
C11_ToolsNeverRaise ==
    \A r \in Reqs :
        (InCall(r) /\ pc[r] = "done") =>
            /\ gate[r] # "raised"
            /\ "raised" \notin DOMAIN result[r]

\* C12: for an identity whose role is none of admin, teacher, student and
\* parent, can_access_student_data and can_access_class_data answer false
\* for every target: they neither raise nor grant.
C12_UnknownRoleDenied ==
    flt.auth_payload.role \notin UserRoleValues =>
        /\ pol.student_out \in {"none", "false"}
        /\ pol.class_out \in {"none", "false"}

C14_ClassGateIsClassPolicy ==
    \A r \in Reqs :
        (InCall(r) /\ call[r].op = "get_class_performance") =>
            /\ gate[r] = "allowed" <=>
                  can_access_class_data(Ident(r), call[r].class_id) = "true"
            /\ gate[r] = "allowed" <=> Ident(r).role \in {"admin", "teacher"}
            /\ gate[r] # "allowed" => (pc[r] = "done" /\ qlog[r] = << >>)

\* a teacher past the permission test for a class that is not stored
C14_Witness ==
    \E r \in Reqs :
        /\ InCall(r)
        /\ call[r].op = "get_class_performance"
        /\ Ident(r).role = "teacher"
        /\ call[r].class_id = "C9"
        /\ gate[r] = "allowed"
        /\ result[r] = Error(MsgClassNotFound)

\* C15: for an admin identity can_access_student_data answers true for
\* every target and can_access_class_data answers true for every class,
\* whatever the identity's student_id and teacher_id.
C15_AdminAlwaysAllowed ==
    flt.auth_payload.role = "admin" =>
        /\ pol.student_out \in {"none", "true"}
        /\ pol.class_out \in {"none", "true"}

\* an admin carrying a student_id and a teacher_id, asked about another
\* student and an unknown class
C15_Witness ==
    /\ flt.auth_payload.role = "admin"
    /\ flt.auth_payload.student_id = "S1"
    /\ flt.auth_payload.teacher_id = "T1"
    /\ pol.student_id = "S2"
    /\ pol.class_id = "C9"
    /\ pol.student_out = "true"
    /\ pol.class_out = "true"

\* C16: in a student-scoped operation an omitted student_id becomes the
\* identity's own student_id when the role is student and, for every other
\* role, yields the missing-parameter error with no access check and no
\* query; a given student_id is the target unchanged and passes exactly
\* when the access check grants it.
C16_TargetResolution ==
    \A r \in Reqs :
        (InCall(r) /\ call[r].op \in StudentOps) =>
            IF call[r].student_id = None
            THEN IF Ident(r).role = "student"
                 THEN /\ target[r] = Ident(r).student_id
                      /\ gate[r] \in {"allowed", "denied"}
                 ELSE /\ gate[r] = "missing"
                      /\ result[r] = Error(MsgStudentIdRequired(call[r].op))
                      /\ pc[r] = "done"
                      /\ qlog[r] = << >>
            ELSE /\ target[r] = call[r].student_id
                 /\ gate[r] = "allowed" <=>
                      can_access_student_data(Ident(r), call[r].student_id) = "true"

\* C19: whatever operations ran, for whatever identity and arguments, the
\* stored students, classes, subjects, exam results and attendance records
\* of every partition are what they were at the start, although every
\* session is committed on exit.
C19_StoredDataUnchanged == store = InitialStore

\* an operation has read rows and its session was committed
C19_Witness ==
    \E r \in Reqs :
        /\ call[r].op = "get_student_attendance"
        /\ pc[r] = "done"
        /\ Len(qlog[r]) = 2
        /\ qlog[r][2].rows # {}
        /\ sess[r] = NoConn

(***************************************************************************)
(* SpecAttendance: two requests of one tenant's admin that only ask for    *)
(* attendance reports, over attendance books of MaxDays days               *)
(***************************************************************************)
MaxDays == 11

\* The books: one record a day for student S1 of t2, absent on at most two
\* days and present, late or excused on the others; the book without any
\* record; and a book of 20 days, 17 of them present and one each absent,
\* late and excused.
AttendanceBooks ==
    { { AttendanceRow("t2", d, 1, d,
            IF d \in A THEN "absent"
            ELSE IF d % 3 = 1 THEN "present"
            ELSE IF d % 3 = 2 THEN "excused" ELSE "late") : d \in 1..MaxDays }
      : A \in { B \in SUBSET (1..MaxDays) : Cardinality(B) <= 2 } }
    \cup { {} }
    \cup { { AttendanceRow("t2", d, 1, d,
                IF d = 1 THEN "absent" ELSE IF d = 2 THEN "late"
                ELSE IF d = 3 THEN "excused" ELSE "present") : d \in 1..20 } }

InitAttendance ==
    /\ enable_schema_isolation = TRUE
    /\ now = TicksPerSec
    /\ tz = 0
    /\ conn = [c \in Conns |-> DefaultSearchPath]
    /\ owner = [c \in Conns |-> Free]
    /\ LET tok == Token(TRUE, TRUE, "admin", "t2", None, 2)
       IN  /\ hdr = [r \in Reqs |-> Header("Bearer ", tok)]
           /\ auth = [r \in Reqs |-> AuthPayload(tok)]
           /\ agent = [r \in Reqs |->
                        [schema_name |-> "t2", auth_payload |-> AuthPayload(tok)]]
    /\ pc = [r \in Reqs |-> "agent"]
    /\ status = [r \in Reqs |-> 0]
    /\ call = [r \in Reqs |-> NoCall]
    /\ target = [r \in Reqs |-> None]
    /\ sess = [r \in Reqs |-> NoConn]
    /\ found = [r \in Reqs |-> {}]
    /\ gate = [r \in Reqs |-> "none"]
    /\ qlog = [r \in Reqs |-> << >>]
    /\ result = [r \in Reqs |-> NoResult]
    /\ \E book \in AttendanceBooks :
         store = [InitialStore EXCEPT !.attendance =
                     book \cup { a \in @ : a.part # "t2" }]
    /\ dec = NoDec
    /\ flt = NoFlt
    /\ pol = NoPol
    /\ sql = NoSql
    /\ wf = NoWf
    /\ lc = NoLc
    /\ rt = NoRt

NextAttendance ==
    \E r \in Reqs :
        \/ get_student_attendance(r)
        \/ get_session_enter(r)
        \/ query_lookup(r)
        \/ query_data(r)
        \/ get_session_exit(r)
        \/ tool_node_return(r)

SpecAttendance == InitAttendance /\ [][NextAttendance]_vars

\* C17: an attendance report that has been computed equals the report of
\* the call run alone, that is the one built from the student's records of
\* the caller's partition cut to the call's own date range, whatever other
\* attendance call runs at the same time and however their steps interleave.
C17_ConcurrentReportsIndependent ==
    \A r \in Reqs :
        (call[r].op = "get_student_attendance" /\ pc[r] \in {"exit", "done"}
            /\ "total_days" \in DOMAIN result[r]) =>
            \E s \in Students :
                /\ s.part = Ident(r).schema_name
                /\ s.student_id = call[r].student_id
                /\ result[r] =
                     AttendanceData(call[r].student_id, s,
                        { a \in Attendances :
                            /\ a.part = s.part
                            /\ a.student_pk = s.pk
                            /\ call[r].start_date # NoDate => a.date >= call[r].start_date
                            /\ call[r].end_date # NoDate => a.date <= call[r].end_date })

\* both calls hold their sessions at once, each with its report computed,
\* for the same student and the disjoint ranges "up to day 2" and "from day 3"
C17_Witness ==
    /\ pc["r1"] = "exit"
    /\ pc["r2"] = "exit"
    /\ call["r1"].op = "get_student_attendance"
    /\ call["r2"].op = "get_student_attendance"
    /\ call["r1"].student_id = call["r2"].student_id
    /\ call["r1"].end_date = 2
    /\ call["r2"].start_date = 3
    /\ sess["r1"] # sess["r2"]
    /\ result["r1"].total_days = 2
    /\ result["r2"].total_days = MaxDays - 2

\* C20: recent_absences of a report holds, latest first, the dates of the 10
\* most recent absent records of the requested range, all of them when the
\* range has fewer than 10 absent records, and no date outside the range.
C20_RecentAbsences ==
    \A r \in Reqs :
        (call[r].op = "get_student_attendance" /\ pc[r] = "done"
            /\ "recent_absences" \in DOMAIN result[r]) =>
            LET s == CHOOSE x \in found[r] : TRUE
                absent == { a \in Attendances :
                              /\ a.part = s.part
                              /\ a.student_pk = s.pk
                              /\ a.status = "absent"
                              /\ call[r].start_date # NoDate => a.date >= call[r].start_date
                              /\ call[r].end_date # NoDate => a.date <= call[r].end_date }
                latest == Head10(SortedDesc(absent))
            IN  result[r].recent_absences = [i \in 1..Len(latest) |-> latest[i].date]

(***************************************************************************)
(* SpecLive: one request against a storage that may leave a query          *)
(* unanswered, with the event loop resuming every coroutine that can run   *)
(***************************************************************************)
LiveReqs == {"r1"}

\* await session.execute(...) on a storage that never answers: the
\* coroutine stays suspended, and nothing in the code bounds the wait
\* (Settings.timeout_seconds is read nowhere).
execute_unanswered(r) ==
    /\ pc[r] \in {"lookup", "data"}
    /\ pc' = [pc EXCEPT ![r] = "stalled"]
    /\ UNCHANGED <<auxVars, enable_schema_isolation, now, tz, conn, owner, hdr, auth, status,
                   agent, call, target, sess, found, gate, qlog, result, dec, flt,
                   store, pol>>

\* The steps of an operation between its entry checks and its return.
Resume(r) ==
    \/ get_session_enter(r)
    \/ query_lookup(r)
    \/ query_data(r)
    \/ get_session_exit(r)

NextLive ==
    \E r \in LiveReqs :
        \/ receive(r)
        \/ get_current_user(r)
        \/ http_exception_handler(r)
        \/ get_agent(r)
        \/ get_student_info(r)
        \/ get_student_attendance(r)
        \/ get_exam_results(r)
        \/ get_performance_analysis(r)
        \/ get_class_performance(r)
        \/ Resume(r)
        \/ tool_node_return(r)
        \/ chat(r)
        \/ execute_unanswered(r)

SpecLive ==
    Init /\ [][NextLive]_vars /\ \A r \in LiveReqs : WF_vars(Resume(r))

\* C18: every tool operation that got past its entry checks eventually
\* returns to its caller, also when the storage leaves its query unanswered
\* (it then returns a timeout error).
C18_OperationsReturn ==
    \A r \in LiveReqs : (pc[r] = "session") ~> (pc[r] = "done")

\* C21: an attendance report gives, for the records of the requested range,
\* the number of records as total_days and the number with each status as
\* present, absent, late and excused days, the four adding up to total_days;
\* attendance_percentage is present_days / total_days * 100 to the two
\* decimals reported, counting present days only; it is 0 without records,
\* and 85.00 for 17 present days out of 20.
C21_AttendanceNumbers ==
    \A r \in Reqs :
        (call[r].op = "get_student_attendance" /\ pc[r] = "done"
            /\ "total_days" \in DOMAIN result[r]) =>
            LET s == CHOOSE x \in found[r] : TRUE
                recs == { a \in Attendances :
                            /\ a.part = s.part
                            /\ a.student_pk = s.pk
                            /\ call[r].start_date # NoDate => a.date >= call[r].start_date
                            /\ call[r].end_date # NoDate => a.date <= call[r].end_date }
                N(st) == Cardinality({ a \in recs : a.status = st })
                res == result[r]
                off == res.attendance_percentage * res.total_days
                          - res.present_days * 10000
            IN  /\ res.total_days = Cardinality(recs)
                /\ res.present_days = N("present")
                /\ res.absent_days = N("absent")
                /\ res.late_days = N("late")
                /\ res.excused_days = N("excused")
                /\ res.present_days + res.absent_days + res.late_days
                      + res.excused_days = res.total_days
                /\ res.total_days = 0 => res.attendance_percentage = 0
                /\ 2 * off <= res.total_days
                /\ -2 * off <= res.total_days
                /\ (res.present_days = 17 /\ res.total_days = 20) =>
                      res.attendance_percentage = 8500

\* the report of 20 days with 17 present, one absent, one late, one excused
C21_Witness ==
    \E r \in Reqs :
        /\ call[r].op = "get_student_attendance"
        /\ pc[r] = "done"
        /\ "total_days" \in DOMAIN result[r]
        /\ result[r].total_days = 20
        /\ result[r].present_days = 17
        /\ result[r].late_days = 1
        /\ result[r].excused_days = 1
        /\ result[r].attendance_percentage = 8500

(***************************************************************************)
(* SpecPerformance: one request of a tenant's admin that asks for exam     *)
(* results and performance analyses, over exam and attendance books        *)
(***************************************************************************)
MaxMarks == 20

\* The exam books of student S1 of t2: none, one or two exams marked out of
\* MaxMarks; 45 out of 50; 59999 out of 100000 (59.999 %); and an exam whose
\* max_marks is 0 beside an ordinary one.
ExamBooks ==
    { {} }
    \cup { { ExamRow("t2", 1, 1, 1, "final", m, MaxMarks) } : m \in 0..MaxMarks }
    \cup { { ExamRow("t2", 1, 1, 1, "final", m, MaxMarks),
             ExamRow("t2", 2, 1, 2, "quiz", n, MaxMarks) }
           : m \in 0..MaxMarks, n \in {0, MaxMarks \div 2, MaxMarks} }
    \cup { { ExamRow("t2", 1, 1, 1, "final", 45, 50) },
           { ExamRow("t2", 1, 1, 1, "final", 59999, 100000) },
           { ExamRow("t2", 1, 1, 1, "final", 5, 0),
             ExamRow("t2", 2, 1, 2, "quiz", 18, MaxMarks) } }

\* Attendance of the same student: no record, 17 of 20 days present (85 %),
\* 4 of 5 (80 %) and 2 of 5 (40 %).
PresentDays ==
    { {}, 1..17, 1..4, 1..2 }

InitPerformance ==
    /\ enable_schema_isolation = TRUE
    /\ now = TicksPerSec
    /\ tz = 0
    /\ conn = [c \in Conns |-> DefaultSearchPath]
    /\ owner = [c \in Conns |-> Free]
    /\ LET tok == Token(TRUE, TRUE, "admin", "t2", None, 2)
       IN  /\ hdr = [r \in Reqs |-> IF r \in LiveReqs THEN Header("Bearer ", tok)
                                    ELSE NoHeader]
           /\ auth = [r \in Reqs |-> IF r \in LiveReqs THEN AuthPayload(tok) ELSE NoAuth]
           /\ agent = [r \in Reqs |->
                        IF r \in LiveReqs
                        THEN [schema_name |-> "t2", auth_payload |-> AuthPayload(tok)]
                        ELSE NoAgent]
    /\ pc = [r \in Reqs |-> IF r \in LiveReqs THEN "agent" ELSE "idle"]
    /\ status = [r \in Reqs |-> 0]
    /\ call = [r \in Reqs |-> NoCall]
    /\ target = [r \in Reqs |-> None]
    /\ sess = [r \in Reqs |-> NoConn]
    /\ found = [r \in Reqs |-> {}]
    /\ gate = [r \in Reqs |-> "none"]
    /\ qlog = [r \in Reqs |-> << >>]
    /\ result = [r \in Reqs |-> NoResult]
    /\ \E exams \in ExamBooks, P \in PresentDays :
         store = [InitialStore EXCEPT
                    !.exam_results = exams \cup { e \in @ : e.part # "t2" },
                    !.attendance =
                        { AttendanceRow("t2", d, 1, d,
                                        IF d \in P THEN "present" ELSE "absent")
                            : d \in IF P = {} THEN {}
                                    ELSE IF P = 1..17 THEN 1..20 ELSE 1..5 }
                        \cup { a \in @ : a.part # "t2" }]
    /\ dec = NoDec
    /\ flt = NoFlt
    /\ pol = NoPol
    /\ sql = NoSql
    /\ wf = NoWf
    /\ lc = NoLc
    /\ rt = NoRt

NextPerformance ==
    \E r \in LiveReqs :
        \/ get_exam_results(r)
        \/ get_performance_analysis(r)
        \/ get_session_enter(r)
        \/ query_lookup(r)
        \/ query_data(r)
        \/ get_session_exit(r)
        \/ tool_node_return(r)

SpecPerformance == InitPerformance /\ [][NextPerformance]_vars

\* C22: a performance analysis has exactly one tier insight, and it is the
\* first insight: the excellent one iff the average is at least 90, the good
\* one iff it is at least 75 and below 90, the average one iff it is at
\* least 60 and below 75, the needs-improvement one iff it is below 60; the
\* average is 0 when the student has no exam results.
C22_OneTierInsight ==
    \A r \in LiveReqs :
        (call[r].op = "get_performance_analysis" /\ pc[r] = "done"
            /\ "insights" \in DOMAIN result[r]) =>
            LET s == CHOOSE x \in found[r] : TRUE
                avg == Average({ e \in ExamResults :
                                    e.part = s.part /\ e.student_pk = s.pk })
                ins == result[r].insights
                tiers == { "Excellent overall performance! Keep up the great work.",
                           "Good performance. Focus on weaker subjects to excel further.",
                           "Average performance. More effort needed in several subjects.",
                           "Performance needs improvement. Consider seeking additional help." }
                first == ins[1].msg
            IN  /\ Cardinality({ i \in 1..Len(ins) : ins[i].msg \in tiers }) = 1
                /\ first \in tiers
                /\ first = "Excellent overall performance! Keep up the great work."
                     <=> avg.num >= 90 * avg.den
                /\ first = "Good performance. Focus on weaker subjects to excel further."
                     <=> (avg.num >= 75 * avg.den /\ avg.num < 90 * avg.den)
                /\ first = "Average performance. More effort needed in several subjects."
                     <=> (avg.num >= 60 * avg.den /\ avg.num < 75 * avg.den)
                /\ first = "Performance needs improvement. Consider seeking additional help."
                     <=> avg.num < 60 * avg.den
                /\ s.part = "t2" /\ ~(\E e \in ExamResults :
                                        e.part = s.part /\ e.student_pk = s.pk)
                     => avg = Frac(0, 1)

\* an average of exactly 90
C22_Witness ==
    \E r \in LiveReqs :
        /\ call[r].op = "get_performance_analysis"
        /\ pc[r] = "done"
        /\ "insights" \in DOMAIN result[r]
        /\ result[r].total_exams = 2
        /\ result[r].average_percentage = 9000
        /\ result[r].insights[1].msg =
              "Excellent overall performance! Keep up the great work."

\* C23: the recommendations of a performance analysis are, in this order,
\* the improve-attendance entry iff attendance is below 85, the
\* study-session entry iff the average is below 75, the targeted-study entry
\* followed by the tutoring entry iff there are weak subjects, the
\* maintain-habits entry iff the average is at least 85, and always the
\* goal-setting and the regular-review entries as the last two.
C23_Recommendations ==
    \A r \in LiveReqs :
        (call[r].op = "get_performance_analysis" /\ pc[r] = "done"
            /\ "recommendations" \in DOMAIN result[r]) =>
            LET s == CHOOSE x \in found[r] : TRUE
                exams == { e \in ExamResults : e.part = s.part /\ e.student_pk = s.pk }
                att == { a \in Attendances : a.part = s.part /\ a.student_pk = s.pk }
                avg == Average(exams)
                present == Cardinality({ a \in att : a.status = "present" })
                weak == SubjectsWhere(exams, TRUE)
                rec == result[r].recommendations
                Has(m) == \E i \in 1..Len(rec) : rec[i].msg = m
                Rank(m) ==
                    CASE m = "Improve attendance to at least 85% for better academic outcomes" -> 1
                      [] m = "Schedule regular study sessions and seek teacher guidance" -> 2
                      [] m = "Focus extra study time on: " -> 3
                      [] m = "Consider joining study groups or tutoring for weak subjects" -> 4
                      [] m = "Maintain current study habits and explore advanced topics" -> 5
                      [] m = "Set specific, measurable goals for each subject" -> 6
                      [] m = "Review and revise regularly instead of last-minute cramming" -> 7
                      [] OTHER -> 0
            IN  /\ \A i \in 1..Len(rec) : Rank(rec[i].msg) > 0
                /\ \A i \in 1..Len(rec) : \A j \in 1..Len(rec) :
                      i < j => Rank(rec[i].msg) < Rank(rec[j].msg)
                /\ Has("Improve attendance to at least 85% for better academic outcomes")
                     <=> present * 100 < 85 * Cardinality(att) \/ (att = {})
                /\ Has("Schedule regular study sessions and seek teacher guidance")
                     <=> avg.num < 75 * avg.den
                /\ Has("Focus extra study time on: ") <=> weak # {}
                /\ Has("Consider joining study groups or tutoring for weak subjects")
                     <=> weak # {}
                /\ \A i \in 1..Len(rec) :
                      rec[i].msg = "Focus extra study time on: " => rec[i].subjects = weak
                /\ Has("Maintain current study habits and explore advanced topics")
                     <=> avg.num >= 85 * avg.den
                /\ Len(rec) >= 2
                /\ rec[Len(rec) - 1].msg = "Set specific, measurable goals for each subject"
                /\ rec[Len(rec)].msg =
                      "Review and revise regularly instead of last-minute cramming"

\* attendance of 80 %, an average below 75 and a weak subject
C23_Witness ==
    \E r \in LiveReqs :
        /\ call[r].op = "get_performance_analysis"
        /\ pc[r] = "done"
        /\ "recommendations" \in DOMAIN result[r]
        /\ result[r].attendance_percentage = 8000
        /\ result[r].average_percentage < 7500
        /\ Len(result[r].recommendations) = 6
        /\ result[r].recommendations[1].msg =
              "Improve attendance to at least 85% for better academic outcomes"
        /\ result[r].recommendations[3].msg = "Focus extra study time on: "
        /\ result[r].recommendations[3].subjects = {Str_Art}

\* C24: the percentage reported for an exam result is marks_obtained /
\* max_marks * 100 (to the two decimals reported) when max_marks is above 0,
\* 90 for 45 out of 50, and 0 when max_marks is 0.
C24_ExamPercentage ==
    \A r \in LiveReqs :
        (call[r].op = "get_exam_results" /\ pc[r] = "done"
            /\ "results" \in DOMAIN result[r]) =>
            \A x \in result[r].results :
                LET off == x.percentage * x.max_marks - x.marks_obtained * 10000
                IN  /\ x.max_marks > 0 =>
                          (2 * off <= x.max_marks /\ -2 * off <= x.max_marks)
                    /\ (x.marks_obtained = 45 /\ x.max_marks = 50) => x.percentage = 9000
                    /\ x.max_marks = 0 => x.percentage = 0

\* the results hold an exam marked out of 0 and one marked 18 out of 20
C24_Witness ==
    \E r \in LiveReqs :
        /\ call[r].op = "get_exam_results"
        /\ pc[r] = "done"
        /\ "results" \in DOMAIN result[r]
        /\ \E x \in result[r].results :
              x.max_marks = 0 /\ x.marks_obtained = 5 /\ x.percentage = 0
        /\ \E x \in result[r].results :
              x.max_marks > 0 /\ x.percentage = 9000


(***************************************************************************)
(* SpecSql: Chat-bot-project's sql_query_tool (chatbot/tools/sql.py)       *)
(*                                                                         *)
(* A query is a sequence of words; the word " " is white space at an end   *)
(* of the text and ";" separates statements.                               *)
(***************************************************************************)
MaxCalls == 3

SqlQueries ==
    { <<"SELECT", "1">>,
      <<" ", "select", "*", "FROM", "users", " ">>,
      <<"DROP", "TABLE", "users">>,
      <<" ", "drop", "table", "users">>,
      <<"DELETE", "FROM", "users">>,
      <<"Select", "1", ";", "DROP", "TABLE", "users">>,
      <<"SELECT", "*", "INTO", "users_copy", "FROM", "users">> }

\* str.lower(), word by word
lower(text) ==
    [i \in 1..Len(text) |->
        CASE text[i] \in {"SELECT", "Select"} -> "select"
          [] text[i] = "DROP" -> "drop"
          [] text[i] = "TABLE" -> "table"
          [] text[i] = "DELETE" -> "delete"
          [] text[i] = "FROM" -> "from"
          [] text[i] = "INTO" -> "into"
          [] OTHER -> text[i]]

\* str.strip(): the white space at both ends is dropped.
strip(text) ==
    LET inner == { i \in 1..Len(text) : text[i] # " " }
        first == CHOOSE i \in inner : \A j \in inner : i <= j
        last == CHOOSE i \in inner : \A j \in inner : j <= i
    IN  IF inner = {} THEN << >> ELSE SubSeq(text, first, last)

\* q.startswith("select")
startswith(q, prefix) == Len(q) > 0 /\ q[1] = prefix

\* The statements of a text, separated by ";".
RECURSIVE Statements(_)
Statements(text) ==
    LET seps == { i \in 1..Len(text) : text[i] = ";" }
        cut == CHOOSE i \in seps : \A j \in seps : i <= j
    IN  IF seps = {} THEN IF text = << >> THEN << >> ELSE <<text>>
        ELSE <<SubSeq(text, 1, cut - 1)>> \o Statements(SubSeq(text, cut + 1, Len(text)))

\* What the statements do to the tables, in order; the first that fails ends
\* the run.  SELECT ... INTO t creates t from the selected rows where the
\* dialect has it (PostgreSQL) and is a syntax error elsewhere.
RECURSIVE Execute(_, _, _)
Execute(dialect, tables, statements) ==
    IF statements = << >> THEN [tables |-> tables, raised |-> FALSE]
    ELSE LET st == strip(lower(Head(statements)))
             into == { i \in 1..Len(st) : st[i] = "into" }
             at == CHOOSE i \in into : TRUE
             rest(t) == Execute(dialect, t, Tail(statements))
         IN  CASE startswith(st, "drop") -> rest([tables EXCEPT ![st[3]] = "absent"])
               [] startswith(st, "delete") -> rest([tables EXCEPT ![st[3]] = "empty"])
               [] startswith(st, "select") /\ into # {} ->
                    IF dialect = "postgresql"
                    THEN rest([tables EXCEPT ![st[at + 1]] = tables[st[at + 3]]])
                    ELSE [tables |-> tables, raised |-> TRUE]
               [] OTHER -> rest(tables)

\* db.run(query): the text goes to the driver as it is, in one transaction
\* that is committed unless a statement fails.  The sqlite3 driver refuses a
\* text of more than one statement before running any; psycopg2 runs them all.
run(dialect, tables, query) ==
    LET statements == Statements(query)
    IN  IF dialect = "sqlite" /\ Len(statements) > 1
        THEN [tables |-> tables, raised |-> TRUE]
        ELSE LET out == Execute(dialect, tables, statements)
             IN  IF out.raised THEN [tables |-> tables, raised |-> TRUE] ELSE out

\* execute_sql(query)
execute_sql ==
    /\ Len(sql.passed) < MaxCalls
    /\ \E query \in SqlQueries :
        LET q == strip(lower(query))
            out == run(sql.dialect, sql.tables, query)
        IN  IF ~startswith(q, "select")
            THEN sql' = [sql EXCEPT !.query = query,
                                    !.reply = "Only SELECT queries are allowed."]
            ELSE sql' = [sql EXCEPT !.query = query,
                                    !.passed = Append(@, query),
                                    !.tables = out.tables,
                                    !.reply = IF out.raised THEN "raised" ELSE "rows"]
    /\ UNCHANGED <<gwVars, now, tz, dec, flt, store, pol, wf, lc, rt>>

\* settings.DATABASE_URL names the database: SQLite unless the environment
\* says otherwise.
InitSql ==
    /\ InitGateway
    /\ enable_schema_isolation
    /\ now = TicksPerSec
    /\ tz = 0
    /\ dec = NoDec
    /\ flt = NoFlt
    /\ pol = NoPol
    /\ wf = NoWf
    /\ lc = NoLc
    /\ rt = NoRt
    /\ sql \in [dialect : {"sqlite", "postgresql"}, tables : {SqlTables},
                query : {<< >>}, passed : {<< >>}, reply : {"none"}]

SpecSql == InitSql /\ [][execute_sql]_vars

\* C25: execute_sql runs read-only queries only: a query reaches the database
\* only if it is a read-only SELECT, every other query is answered with
\* "Only SELECT queries are allowed." without being run, and no sequence of
\* calls changes the database.
C25_ReadOnlySql ==
    LET ReadOnlySelect(query) ==
            /\ Len(Statements(query)) = 1
            /\ startswith(strip(lower(query)), "select")
            /\ \A i \in 1..Len(query) : lower(query)[i] # "into"
    IN  /\ \A i \in 1..Len(sql.passed) : ReadOnlySelect(sql.passed[i])
        /\ sql.query # << >> /\ ~ReadOnlySelect(sql.query)
              => sql.reply = "Only SELECT queries are allowed."
        /\ sql.tables = SqlTables

MaxQueries == 2

\* "async with self._async_session_factory() as session", then the code up
\* to the yield: the SET search_path statement under its condition.
session_enter ==
    /\ lc.at = "idle"
    /\ lc' = [lc EXCEPT
                !.at = "body", !.open = TRUE,
                !.tx = IF SetsSearchPath(lc.schema_name, enable_schema_isolation)
                       THEN "active" ELSE "none",
                !.log = IF SetsSearchPath(lc.schema_name, enable_schema_isolation)
                        THEN <<[op |-> "SET search_path", arg |-> lc.schema_name]>>
                        ELSE << >>]
    /\ UNCHANGED <<gwVars, now, tz, dec, flt, store, pol, sql, wf, rt>>

\* The caller's block runs a query on the session.
caller_query ==
    /\ lc.at = "body"
    /\ Len(SelectSeq(lc.log, LAMBDA s : s.op = "query")) < MaxQueries
    /\ lc' = [lc EXCEPT !.tx = "active",
                         !.log = Append(@, [op |-> "query", arg |-> None])]
    /\ UNCHANGED <<gwVars, now, tz, dec, flt, store, pol, sql, wf, rt>>

\* The caller's block ends with an exception, thrown into the generator at
\* the yield: an Exception (a failed query) is caught, "await
\* session.rollback()" runs and it is raised again; a BaseException that
\* "except Exception" does not catch (asyncio's CancelledError, when the
\* request's task is cancelled) goes straight to the "finally".
caller_raise ==
    /\ lc.at = "body"
    /\ \E x \in {"Exception", "CancelledError"} :
        lc' = IF x = "Exception"
              THEN [lc EXCEPT !.exc = x, !.at = "finally", !.tx = "rolledback",
                              !.log = Append(@, [op |-> "rollback", arg |-> None])]
              ELSE [lc EXCEPT !.exc = x, !.at = "finally"]
    /\ UNCHANGED <<gwVars, now, tz, dec, flt, store, pol, sql, wf, rt>>

\* The caller's block ends normally: "await session.commit()".
session_commit ==
    /\ lc.at = "body"
    /\ lc' = [lc EXCEPT !.tx = "committed", !.at = "finally",
                         !.log = Append(@, [op |-> "commit", arg |-> None])]
    /\ UNCHANGED <<gwVars, now, tz, dec, flt, store, pol, sql, wf, rt>>

\* session.close(): an open session ends the transaction in progress (the
\* connection is reset on its way back to the pool) and releases it; a
\* closed one has nothing to release.
close(s) ==
    IF s.open
    THEN [s EXCEPT !.open = FALSE, !.closes = @ + 1,
                   !.tx = IF @ = "active" THEN "rolledback" ELSE @]
    ELSE s

\* "finally: await session.close()", then the end of "async with ... as
\* session", where AsyncSession.__aexit__ closes the session again; a pending
\* exception goes on to the caller.
session_exit ==
    /\ lc.at = "finally"
    /\ lc' = [close(close(lc)) EXCEPT !.at = "done", !.raised = lc.exc]
    /\ UNCHANGED <<gwVars, now, tz, dec, flt, store, pol, sql, wf, rt>>

InitSession ==
    /\ InitGateway
    /\ now = TicksPerSec
    /\ tz = 0
    /\ dec = NoDec
    /\ flt = NoFlt
    /\ pol = NoPol
    /\ sql = NoSql
    /\ wf = NoWf
    /\ rt = NoRt
    /\ \E s \in Tenants \cup {None} : lc = [NoLc EXCEPT !.schema_name = s, !.at = "idle"]

SpecSession ==
    InitSession
    /\ [][session_enter \/ caller_query \/ caller_raise \/ session_commit
           \/ session_exit]_vars

\* C29: every session opened by get_session is closed exactly once on every
\* path; it is committed iff the caller's block finished without an
\* exception, and otherwise rolled back with the exception re-raised to the
\* caller; and when a schema_name is given, the search_path statement is
\* executed before the caller's first query on that session.
C29_SessionLifecycle ==
    LET ops == [i \in 1..Len(lc.log) |-> lc.log[i].op]
        Has(op) == \E i \in 1..Len(ops) : ops[i] = op
    IN  /\ lc.closes <= 1
        /\ lc.at = "done" =>
              /\ lc.closes = 1 /\ ~lc.open
              /\ Has("commit") <=> lc.exc = "none"
              /\ lc.exc # "none" => lc.tx # "active" /\ lc.tx # "committed"
                                    /\ lc.raised = lc.exc
              /\ lc.exc = "none" => lc.raised = "none"
        /\ lc.schema_name # None /\ Has("query") =>
              \E i \in 1..Len(ops) :
                 /\ lc.log[i] = [op |-> "SET search_path", arg |-> lc.schema_name]
                 /\ \A j \in 1..Len(ops) : ops[j] = "query" => i < j

(***************************************************************************)
(* SpecRoundTrip: create_access_token, then decode_token on its token      *)
(* (auth.py), over clocks and time zones                                   *)
(***************************************************************************)
MaxDelta == 4

\* create_access_token: expire = utcnow() + expires_delta; the claims carry
\* student_id and teacher_id only when they are given, and jwt.encode signs
\* them with exp in whole seconds (timegm of the naive UTC datetime).
create_access_token(user_id, email, role, schema_name, student_id, teacher_id, expires_delta, nowTicks) ==
    Token(TRUE, TRUE, role, schema_name,
          IF student_id = "" THEN None ELSE student_id,
          (nowTicks + expires_delta) \div TicksPerSec)
      @@ [user_id |-> user_id, email |-> email,
          teacher_id |-> IF teacher_id = "" THEN None ELSE teacher_id]

\* test_client.create_token: a token for some identity and some positive
\* expires_delta (in ticks).
create_access_token_call ==
    /\ ~rt.made
    /\ \E a \in [user_id : {"u1", "u2"}, email : {"ann@school"}, role : UserRoleValues,
                 schema_name : Tenants, student_id : {None, "S1"},
                 teacher_id : {None, "T1"}, expires_delta : 1..MaxDelta] :
        rt' = [rt EXCEPT
                 !.made = TRUE, !.args = a, !.expire = now + a.expires_delta,
                 !.tok = create_access_token(a.user_id, a.email, a.role, a.schema_name,
                                             a.student_id, a.teacher_id,
                                             a.expires_delta, now)]
    /\ UNCHANGED <<gwVars, now, tz, dec, flt, store, pol, sql, wf, lc>>

\* auth_service.decode_token(token) on the token made, at the current time;
\* AuthPayload(**payload) takes every claim of the token.
decode_round_trip ==
    /\ rt.made /\ ~rt.done
    /\ LET a == decode_token(rt.tok, now, tz)
       IN  rt' = [rt EXCEPT
                    !.done = TRUE, !.at = now,
                    !.out = IF a = NoAuth THEN NoAuth
                            ELSE a @@ [user_id |-> rt.tok.user_id,
                                       email |-> rt.tok.email,
                                       teacher_id |-> rt.tok.teacher_id]]
    /\ UNCHANGED <<gwVars, now, tz, dec, flt, store, pol, sql, wf, lc>>

InitRoundTrip ==
    /\ InitGateway
    /\ enable_schema_isolation
    /\ now \in 0..TicksPerSec
    /\ tz \in TzOffsets
    /\ dec = NoDec
    /\ flt = NoFlt
    /\ pol = NoPol
    /\ sql = NoSql
    /\ wf = NoWf
    /\ lc = NoLc
    /\ rt = NoRt

SpecRoundTrip ==
    InitRoundTrip /\ [][create_access_token_call \/ decode_round_trip \/ tick]_vars

\* C30: for every user_id, email, role, schema_name, optional student_id and
\* teacher_id and every positive expires_delta, decode_token applied to the
\* token that create_access_token made, at any time before the expiry,
\* returns an identity with the same fields, not a rejection.
C30_TokenRoundTrip ==
    rt.done /\ rt.at < rt.expire =>
        /\ rt.out # NoAuth
        /\ \A f \in {"user_id", "email", "role", "schema_name", "student_id",
                     "teacher_id"} : rt.out[f] = rt.args[f]

(***************************************************************************)
(* SpecWorkflow: one SchoolChatbotAgent.chat() run of the LangGraph        *)
(* workflow agent -> (tools -> agent)* -> generate_response -> END         *)
(* (agent.py)                                                              *)
(***************************************************************************)
\* The graph stops a run that has not reached END after this many node
\* executions (GraphRecursionError).
RecursionLimit == 9

\* The five tools of _create_tools.
ToolNames == {"get_student_info", "get_attendance", "get_exam_results",
              "get_performance_analysis", "get_class_performance"}

Message(type, tool_calls, tool_call_id, content) ==
    [type |-> type, tool_calls |-> tool_calls, tool_call_id |-> tool_call_id,
     content |-> content]

\* What the language model may answer: a final text, or tool calls, whose
\* names and arguments are its own choice; args says whether the arguments
\* pass the tool's args_schema ("bad": tool.ainvoke raises).
LlmToolCalls ==
    { << >>,
      <<[name |-> "get_student_info", id |-> "c1", args |-> "ok"]>>,
      <<[name |-> "get_class_performance", id |-> "c1", args |-> "bad"]>>,
      <<[name |-> "get_grades", id |-> "c1", args |-> "ok"]>>,
      <<[name |-> "get_attendance", id |-> "c1", args |-> "ok"],
        [name |-> "get_exam_results", id |-> "c2", args |-> "bad"]>>,
      <<[name |-> "get_grades", id |-> "c1", args |-> "ok"],
        [name |-> "get_student_info", id |-> "c2", args |-> "ok"]>> }

\* should_continue(state)
should_continue(messages) ==
    LET last_message == messages[Len(messages)]
    IN  IF last_message.type = "ai" /\ last_message.tool_calls # << >>
        THEN "continue" ELSE "end"

\* One node has run: the next node, or the end of the run by the recursion
\* limit.
Step(state, next) ==
    IF state.steps + 1 >= RecursionLimit /\ next # "END"
    THEN [state EXCEPT !.steps = @ + 1, !.prev = state.node, !.node = "GraphRecursionError"]
    ELSE [state EXCEPT !.steps = @ + 1, !.prev = state.node, !.node = next]

\* agent_node, then the conditional edge: the model's answer is appended, or
\* on an exception nothing is and error is set.
agent_node ==
    /\ wf.node = "agent"
    /\ \/ \E calls \in LlmToolCalls :
            LET st == [wf EXCEPT !.messages = Append(@, Message("ai", calls, None, "text"))]
            IN  wf' = Step(st, IF should_continue(st.messages) = "continue"
                               THEN "tools" ELSE "generate_response")
       \/ LET st == [wf EXCEPT !.error = "llm failed"]
          IN  wf' = Step(st, IF should_continue(st.messages) = "continue"
                             THEN "tools" ELSE "generate_response")
    /\ UNCHANGED <<gwVars, now, tz, dec, flt, store, pol, sql, lc, rt>>

\* The function messages tool_node builds for the tool calls, in order: the
\* tool's result, an error payload when the tool raised, nothing for a name
\* that is no tool.
RECURSIVE Outputs(_)
Outputs(tool_calls) ==
    IF tool_calls = << >> THEN << >>
    ELSE LET tool_call == Head(tool_calls)
         IN  (IF tool_call.name \notin ToolNames THEN << >>
              ELSE IF tool_call.args = "bad"
              THEN <<Message("function", << >>, tool_call.id, "error")>>
              ELSE <<Message("function", << >>, tool_call.id, "result")>>)
             \o Outputs(Tail(tool_calls))

\* tool_node, then the edge tools -> agent.
tool_node ==
    /\ wf.node = "tools"
    /\ LET last_message == wf.messages[Len(wf.messages)]
           tool_calls == IF last_message.type = "ai" THEN last_message.tool_calls
                         ELSE << >>
           outputs == Outputs(tool_calls)
           ran == { i \in 1..Len(tool_calls) :
                      tool_calls[i].name \in ToolNames /\ tool_calls[i].args = "ok" }
       IN  wf' = Step([wf EXCEPT !.messages = @ \o outputs,
                                 !.executed = @ + Cardinality(ran)], "agent")
    /\ UNCHANGED <<gwVars, now, tz, dec, flt, store, pol, sql, lc, rt>>

\* generate_response_node, then the edge to END.
generate_response_node ==
    /\ wf.node = "generate_response"
    /\ wf' = Step([wf EXCEPT !.final_answer = wf.messages[Len(wf.messages)].content],
                  "END")
    /\ UNCHANGED <<gwVars, now, tz, dec, flt, store, pol, sql, lc, rt>>

\* chat(), after app.ainvoke: the error text, the final answer, or the
\* apology of the except branch when ainvoke raised.
chat_return ==
    /\ wf.node \in {"END", "GraphRecursionError"}
    /\ wf' = [wf EXCEPT
                !.prev = wf.node, !.node = "returned",
                !.reply = IF wf.node = "GraphRecursionError"
                          THEN "I'm sorry, I encountered an error: "
                          ELSE IF wf.error # None THEN "I encountered an error: "
                          ELSE "final_answer"]
    /\ UNCHANGED <<gwVars, now, tz, dec, flt, store, pol, sql, lc, rt>>

\* chat(user_message): the initial state, at the entry point.
InitWorkflow ==
    /\ InitGateway
    /\ enable_schema_isolation
    /\ now = TicksPerSec
    /\ tz = 0
    /\ dec = NoDec
    /\ flt = NoFlt
    /\ pol = NoPol
    /\ sql = NoSql
    /\ lc = NoLc
    /\ rt = NoRt
    /\ wf = [NoWf EXCEPT !.node = "agent", !.prev = "start",
                         !.messages = <<Message("human", << >>, None, "text")>>]

SpecWorkflow ==
    InitWorkflow
    /\ [][agent_node \/ tool_node \/ generate_response_node \/ chat_return]_vars

\* Every node that can run does run.
SpecWorkflowLive ==
    SpecWorkflow
    /\ WF_vars(agent_node) /\ WF_vars(tool_node)
    /\ WF_vars(generate_response_node) /\ WF_vars(chat_return)

\* C27: for every tool call carried by the last agent message, tool_node
\* emits exactly one function message with that call's tool_call_id (the
\* tool's result, or an error payload if the tool raised); whenever control
\* returns from the tools node to the agent node, the last message is a tool
\* response and every pending tool call has been answered.
C27_EveryToolCallAnswered ==
    wf.prev = "tools" /\ wf.node \in {"agent", "GraphRecursionError"} =>
        LET ais == { i \in 1..Len(wf.messages) : wf.messages[i].type = "ai" }
            ai == CHOOSE i \in ais : \A j \in ais : j <= i
            answers(id) == { j \in (ai + 1)..Len(wf.messages) :
                                /\ wf.messages[j].type = "function"
                                /\ wf.messages[j].tool_call_id = id }
        IN  /\ wf.messages[Len(wf.messages)].type = "function"
            /\ \A k \in 1..Len(wf.messages[ai].tool_calls) :
                  Cardinality(answers(wf.messages[ai].tool_calls[k].id)) = 1

\* C28: once the model call of agent_node has failed, no further tool is
\* executed, the workflow goes on to generate_response and reaches END, and
\* chat returns the "I encountered an error" message.
C28_LlmFailureEndsRun ==
    /\ [][wf.error # None => /\ wf'.executed = wf.executed
                              /\ wf'.node # "tools"]_vars
    /\ (wf.error # None) ~> (wf.node = "returned" /\ wf.reply = "I encountered an error: ")


====
